---- MODULE Spec2Model ----
(***************************************************************************)
(* Snapperable: resumable processing of an iterable.                       *)
(*                                                                         *)
(* The model follows the package under src/src/snapperable:                *)
(*   snapper.py               Snapper (orchestrator, registry, load)       *)
(*   snapshot_tracker.py      SnapshotTracker (what remains to process)    *)
(*   batch_processor.py       BatchProcessor (buffer, flush)               *)
(*   batch_storage_worker.py  BatchStorageWorker (queue, retry, shutdown)  *)
(*   storage/snapshot_storage.py  the storage interface                    *)
(*                                                                         *)
(* One caller thread runs the operations of the Snapper instances one at   *)
(* a time; every instance owns one background worker thread, whose steps   *)
(* interleave with the caller's.                                           *)
(***************************************************************************)
EXTENDS Integers, Sequences, FiniteSets, TLC

\* ---------------------------------------------------------------- bounds
NSnap == 3          \* Snapper instances that may be constructed
MaxLen == 2         \* longest input sequence
MaxFaults == 2      \* storage writes the environment lets fail
MaxRetries == 1     \* max_retries passed to the worker
MaxBatch == 2       \* largest batch_size passed to the accumulator
NRun == 2           \* instances constructed on the one storage of a run
RegLen == 1         \* longest input sequence of the registry scenarios

MaxAdds == 4        \* items of an iterable in the runs on batch boundaries
MaxBatchSize == 3   \* batch_size in the runs on batch boundaries
NThreads == 2       \* client threads of a worker that is used directly
MaxUnits == 3       \* units the client threads enqueue
PolicyLen == 4      \* longest input sequence of the runs with an error policy
MaxConsecutive == 2 \* largest max_consecutive_exceptions
MaxEarlier == 2     \* failures a handler has seen before the run
MaxVersions == 2    \* versions of the user function

Snappers == 1..NSnap
SIDS == {"X", "Y"}

\* ---------------------------------------------------------------- values
\* Input values: an int, a list [1], a tuple (1,) and an object whose class
\* sets __hash__ = None (equality by value, not hashable).
IntItem == [kind |-> "int", v |-> 1]
ListItem == [kind |-> "list", v |-> 1]
TupleItem == [kind |-> "tuple", v |-> 1]
ObjItem == [kind |-> "obj", v |-> 1]
Items == {IntItem, ListItem, TupleItem, ObjItem}

\* hash(obj) raises TypeError for the unhashable object only.
Hashable(x) == x.kind # "obj"

\* SnapshotTracker._make_hashable: lists and tuples both become tuples,
\* everything else is returned unchanged.
MakeHashable(obj) ==
  IF obj.kind \in {"list", "tuple"} THEN [kind |-> "tuple", v |-> obj.v] ELSE obj

\* The user function: pure, its result depends on the function (version fv)
\* and on the whole input value.
Fn(fv, x) == [f |-> fv, of |-> x]

\* FunctionHasher.compute_hash: the hash of the function's source.
ComputeHash(fv) == fv

SeqsUpTo(S, n) == UNION {[1..k -> S] : k \in 0..n}

Range(q) == {q[i] : i \in 1..Len(q)}


Min(a, b) == IF a < b THEN a ELSE b

\* Python's None where a string or a number is expected.
NoVersion == 0

NoLimit == 0

\* ------------------------------------------------------- storage interface
\* SnapshotStorage: an append log of inputs and outputs (store_snapshot
\* appends both lists atomically) and the stored function version.
EmptyStorage == [inputs |-> <<>>, outputs |-> <<>>, fn_version |-> NoVersion]

\* A storage that writes a unit in front of what it holds.
StoreSnapshotInFront(st, outputs, inputs) ==
  [st EXCEPT !.outputs = outputs \o @, !.inputs = inputs \o @]

StoreSnapshot(st, outputs, inputs) ==
  [st EXCEPT !.outputs = @ \o outputs, !.inputs = @ \o inputs]

\* --------------------------------------------------------- SnapshotTracker
\* A tracker that ignores what is stored.
InitProcessedSetEmpty(stored_inputs, stored_fn_version, current_fn_version) == {}

\* A tracker that builds the set from the stored inputs whatever function
\* version is stored.
InitProcessedSetAnyVersion(stored_inputs, stored_fn_version, current_fn_version) ==
  {MakeHashable(stored_inputs[i]) :
     i \in {j \in 1..Len(stored_inputs) : Hashable(stored_inputs[j])}}

\* SnapshotTracker._initialize: the set of processed inputs built from the
\* stored inputs; unhashable stored inputs are left out; the set is empty
\* when a stored function version differs from the current one.
InitProcessedSet(stored_inputs, stored_fn_version, current_fn_version) ==
  IF stored_fn_version # NoVersion /\ stored_fn_version # current_fn_version
  THEN {}
  ELSE {MakeHashable(stored_inputs[i]) :
          i \in {j \in 1..Len(stored_inputs) : Hashable(stored_inputs[j])}}

\* A tracker that compares the item itself with the processed set.
IsSkippedByValue(item, processed) == item \in processed

\* SnapshotTracker.get_remaining, one resumption of the generator: is the
\* item skipped (its hashable form is in the processed set)?
IsSkipped(item, processed) ==
  Hashable(item) /\ MakeHashable(item) \in processed

\* The position of the next item the generator yields after position i,
\* 0 when the generator is exhausted.
NextRemaining(iterable, i, processed) ==
  LET cand == {j \in (i + 1)..Len(iterable) : ~IsSkipped(iterable[j], processed)}
  IN IF cand = {} THEN 0 ELSE CHOOSE j \in cand : \A k \in cand : j <= k

\* A tracker that does not remember what it processed in this pass.
MarkProcessedNever(processed, item) == processed

\* A tracker that keeps every marked item, hashable or not.
MarkProcessedAny(processed, item) == processed \cup {MakeHashable(item)}

\* SnapshotTracker.mark_processed: unhashable items are not tracked.
MarkProcessed(processed, item) ==
  IF Hashable(item) THEN processed \cup {MakeHashable(item)} ELSE processed

\* A comparison of the lengths alone.
InputsMatchByLength(current_inputs, stored_inputs) ==
  Len(current_inputs) = Len(stored_inputs)

\* ------------------------------------------------------------ Snapper.load
\* Snapper._inputs_match
InputsMatch(current_inputs, stored_inputs) ==
  /\ Len(current_inputs) = Len(stored_inputs)
  /\ \A i \in 1..Len(current_inputs) : current_inputs[i] = stored_inputs[i]

\* The dict input_to_output of Snapper._get_matching_outputs: its keys, and
\* the output kept for a key (the last one written for it).
MappedKeys(stored_inputs, all_outputs) ==
  {MakeHashable(stored_inputs[i]) :
     i \in {j \in 1..Min(Len(stored_inputs), Len(all_outputs)) :
              Hashable(stored_inputs[j])}}

MappedOutput(stored_inputs, all_outputs, key) ==
  LET at == {j \in 1..Min(Len(stored_inputs), Len(all_outputs)) :
               Hashable(stored_inputs[j]) /\ MakeHashable(stored_inputs[j]) = key}
      last == CHOOSE j \in at : \A k \in at : k <= j
  IN all_outputs[last]

RECURSIVE MatchingFrom(_, _, _, _)
MatchingFrom(current_inputs, stored_inputs, all_outputs, i) ==
  IF i > Len(current_inputs) THEN <<>>
  ELSE LET inp == current_inputs[i]
           rest == MatchingFrom(current_inputs, stored_inputs, all_outputs, i + 1)
       IN IF Hashable(inp) /\ MakeHashable(inp) \in MappedKeys(stored_inputs, all_outputs)
          THEN <<MappedOutput(stored_inputs, all_outputs, MakeHashable(inp))>> \o rest
          ELSE rest

\* Snapper._get_matching_outputs
GetMatchingOutputs(current_inputs, stored_inputs, all_outputs) ==
  MatchingFrom(current_inputs, stored_inputs, all_outputs, 1)

\* A load that returns what is stored whatever the current inputs are.
LoadResultUnmatched(st, current_inputs) == st.outputs

\* Snapper.load, on the storage contents st and the current inputs.
LoadResult(st, current_inputs) ==
  IF st.inputs = <<>> THEN st.outputs
  ELSE IF InputsMatch(current_inputs, st.inputs) THEN st.outputs
  ELSE GetMatchingOutputs(current_inputs, st.inputs, st.outputs)

\* Snapper.load_all
LoadAllResult(st) == st.outputs

\* ------------------------------------------------------------------ state
VARIABLES
  active_storages,   \* Snapper._active_storages: the registered identifiers
  status,            \* per instance: unborn, live, failed, released, deleted
  ident,             \* per instance: the attribute _storage_identifier
  cfg,               \* per instance: the constructor arguments
  cached_inputs,     \* per instance: Snapper._cached_inputs
  current_batch,     \* per instance: BatchProcessor.current_batch
  last_flush_set,    \* per instance: last_flush_time is not None
  wait_exceeded,     \* per instance: now - last_flush_time > max_wait_time
  shutdown,          \* per instance: BatchStorageWorker._shutdown
  save_queue,        \* per instance: BatchStorageWorker._save_queue
  worker,            \* per instance: where the worker thread is
  w_item,            \* per instance: the unit the worker is storing
  attempt,           \* per instance: the retry loop's attempt
  failed_exception,  \* per instance: _failed_exception is not None
  storage,           \* per identifier: what the storage holds
  cur,               \* the instance whose operation the caller runs, or 0
  pc,                \* where the caller is in that operation
  idx,               \* get_remaining: items of the iterable consumed
  pset,              \* SnapshotTracker._processed_inputs_set
  calls,             \* history, per instance: the items fn was invoked on
  added,             \* history, per instance: the pairs given to add_item
  enq_log,           \* history, per instance: the units enqueued
  write_log,         \* history, per identifier: the units store_snapshot appended
  base_inputs,       \* history, per instance: the stored inputs when start() began
  start_result,      \* per instance: how start() ended
  fn_halted,         \* per instance: fn raised during start()
  exit_result,       \* per instance: how __exit__ ended
  ret,               \* what the caller's last operation returned, if it was a load
  faults,            \* storage writes that failed so far
  tpc,               \* per client thread of a worker: where it is
  t_unit,            \* per client thread: the unit its enqueue_batch holds
  t_ret,             \* per client thread: how its last call ended
  n_units,           \* units the client threads have made so far
  put_log,           \* history: what the client threads put on the queue
  attempt_log,       \* history: the worker's store_snapshot attempts
  policy,            \* per instance: the ItemErrorHandler's configuration
  failed_items,      \* per instance: ItemErrorHandler.failed_items
  consecutive_count, \* per instance: ItemErrorHandler._consecutive_count
  halt_kind,         \* per instance: what on_item_error made start() raise
  error_log,         \* history, per instance: the exceptions fn raised
  fn_log,            \* history, per instance: how each call of fn ended
  pending_metrics,   \* per instance: metrics recorded and not yet enqueued
  metrics_queue,     \* per instance: the metrics of the units on the queue
  w_metrics,         \* per instance: the metrics of the unit the worker holds
  stored_metrics     \* per storage id: what store_metrics has stored

vars == <<active_storages, status, ident, cfg, cached_inputs, current_batch,
          last_flush_set, wait_exceeded, shutdown, save_queue, worker, w_item,
          attempt, failed_exception, storage, cur, pc, idx, pset, calls, added,
          enq_log, write_log, base_inputs, start_result, fn_halted, exit_result, ret,
          faults, tpc, t_unit, t_ret, n_units, put_log, attempt_log, policy,
          failed_items, consecutive_count, halt_kind, error_log, fn_log,
          pending_metrics, metrics_queue, w_metrics, stored_metrics>>

registry_vars == <<active_storages, status, ident>>

proc_vars == <<current_batch, last_flush_set, wait_exceeded, added, enq_log>>

worker_vars == <<worker, w_item, attempt, failed_exception>>

caller_vars == <<cur, pc, idx, pset>>

result_vars == <<start_result, fn_halted, exit_result, base_inputs>>

thread_vars == <<tpc, t_unit, t_ret, n_units, put_log, attempt_log>>

policy_vars ==
  <<policy, failed_items, consecutive_count, halt_kind, error_log, fn_log>>

metrics_vars == <<pending_metrics, metrics_queue, w_metrics, stored_metrics>>

NoIdent == [has |-> FALSE, id |-> "X"]

NoCfg == [sid |-> "X", iterable |-> <<>>, batch_size |-> 1,
          max_wait_time |-> FALSE, fv |-> 1]

NoValue == [set |-> FALSE, val |-> <<>>]

NoRet == [op |-> "none", s |-> 0, val |-> <<>>]

Sentinel == [sentinel |-> TRUE, outputs |-> <<>>, inputs |-> <<>>, metrics |-> <<>>]

\* The client threads of a worker that is used directly.
Threads == 1..NThreads

NoCall == [op |-> "none", outcome |-> "none", late |-> FALSE]

\* ItemErrorHandler.__init__ defaults: skip_item_errors False, no
\* fatal_exceptions, max_consecutive_exceptions None (0 here).
DefaultPolicy == [skip |-> FALSE, fatal |-> {}, maxc |-> NoLimit]

Init ==
  /\ active_storages = {}
  /\ status = [s \in Snappers |-> "unborn"]
  /\ ident = [s \in Snappers |-> NoIdent]
  /\ cfg = [s \in Snappers |-> NoCfg]
  /\ cached_inputs = [s \in Snappers |-> NoValue]
  /\ current_batch = [s \in Snappers |-> <<>>]
  /\ last_flush_set = [s \in Snappers |-> FALSE]
  /\ wait_exceeded = [s \in Snappers |-> FALSE]
  /\ shutdown = [s \in Snappers |-> FALSE]
  /\ save_queue = [s \in Snappers |-> <<>>]
  /\ worker = [s \in Snappers |-> "none"]
  /\ w_item = [s \in Snappers |-> Sentinel]
  /\ attempt = [s \in Snappers |-> 0]
  /\ failed_exception = [s \in Snappers |-> FALSE]
  /\ storage = [d \in SIDS |-> EmptyStorage]
  /\ cur = 0
  /\ pc = "idle"
  /\ idx = 0
  /\ pset = {}
  /\ calls = [s \in Snappers |-> <<>>]
  /\ added = [s \in Snappers |-> <<>>]
  /\ enq_log = [s \in Snappers |-> <<>>]
  /\ write_log = [d \in SIDS |-> <<>>]
  /\ base_inputs = [s \in Snappers |-> <<>>]
  /\ start_result = [s \in Snappers |-> "none"]
  /\ fn_halted = [s \in Snappers |-> FALSE]
  /\ exit_result = [s \in Snappers |-> "none"]
  /\ ret = NoRet
  /\ faults = 0
  /\ tpc = [t \in Threads |-> "idle"]
  /\ t_unit = [t \in Threads |-> Sentinel]
  /\ t_ret = [t \in Threads |-> NoCall]
  /\ n_units = 0
  /\ put_log = <<>>
  /\ attempt_log = <<>>
  /\ policy = [s \in Snappers |-> DefaultPolicy]
  /\ failed_items = [s \in Snappers |-> <<>>]
  /\ consecutive_count = [s \in Snappers |-> 0]
  /\ halt_kind = [s \in Snappers |-> "none"]
  /\ error_log = [s \in Snappers |-> <<>>]
  /\ fn_log = [s \in Snappers |-> <<>>]
  /\ pending_metrics = [s \in Snappers |-> <<>>]
  /\ metrics_queue = [s \in Snappers |-> <<>>]
  /\ w_metrics = [s \in Snappers |-> <<>>]
  /\ stored_metrics = [sid \in SIDS |-> <<>>]

\* ---------------------------------------------------------- construction
\* Snapper.__init__: the check-and-insert under _storage_lock; the
\* attributes snapshot_storage and _storage_identifier are set, and the
\* BatchProcessor (with its worker thread) created, only past the check.
Construct(s, sid, it, bs, mw, fv) ==
  /\ cur = 0
  /\ status[s] = "unborn"
  /\ \A r \in Snappers : r < s => status[r] # "unborn"
  /\ cfg' = [cfg EXCEPT ![s] = [sid |-> sid, iterable |-> it, batch_size |-> bs,
                                max_wait_time |-> mw, fv |-> fv]]
  /\ IF sid \in active_storages
     THEN /\ status' = [status EXCEPT ![s] = "failed"]
          /\ UNCHANGED <<active_storages, ident, worker>>
     ELSE /\ active_storages' = active_storages \cup {sid}
          /\ status' = [status EXCEPT ![s] = "live"]
          /\ ident' = [ident EXCEPT ![s] = [has |-> TRUE, id |-> sid]]
          /\ worker' = [worker EXCEPT ![s] = "get"]
  /\ ret' = NoRet
  /\ UNCHANGED <<cached_inputs, proc_vars, shutdown, save_queue, w_item, attempt,
                 failed_exception, storage, write_log, caller_vars, calls, result_vars, faults>>

\* --------------------------------------------------------- BatchProcessor
\* A batch entry: the output with its input value (Snapper.start hands
\* add_item the result and input_value).
Entry(input, output) == [inp |-> input, out |-> output]

\* The unit BatchStorageWorker.enqueue_batch puts on the queue for a batch.
MakeUnit(batch) ==
  [sentinel |-> FALSE,
   outputs |-> [i \in 1..Len(batch) |-> batch[i].out],
   inputs |-> [i \in 1..Len(batch) |-> batch[i].inp],
   metrics |-> <<>>]

\* A batch that is full only past batch_size.
IsBatchFullLate(batch, batch_size) == Len(batch) > batch_size

\* BatchProcessor._is_batch_full
IsBatchFull(batch, batch_size) == Len(batch) >= batch_size

\* A batch processor that never finds the wait time exceeded.
IsWaitTimeExceededNever(s) == FALSE

\* BatchProcessor._is_wait_time_exceeded, evaluated in add_item after
\* last_flush_time was initialised: never exceeded without max_wait_time or
\* when last_flush_time was None on entry.
IsWaitTimeExceeded(s) ==
  cfg[s].max_wait_time /\ last_flush_set[s] /\ wait_exceeded[s]

\* A flush that hands the buffer over without swapping it for an empty one.
FlushKeepsBuffer(s, b) ==
  IF b # <<>>
  THEN /\ current_batch' = [current_batch EXCEPT ![s] = b]
       /\ save_queue' = [save_queue EXCEPT ![s] = Append(@, MakeUnit(b))]
       /\ enq_log' = [enq_log EXCEPT ![s] = Append(@, MakeUnit(b))]
       /\ last_flush_set' = [last_flush_set EXCEPT ![s] = TRUE]
       /\ wait_exceeded' = [wait_exceeded EXCEPT ![s] = FALSE]
  ELSE /\ current_batch' = [current_batch EXCEPT ![s] = b]
       /\ UNCHANGED <<save_queue, enq_log, last_flush_set, wait_exceeded>>

\* A flush that enqueues a unit also for an empty buffer.
FlushAlways(s, b) ==
  /\ current_batch' = [current_batch EXCEPT ![s] = <<>>]
  /\ save_queue' = [save_queue EXCEPT ![s] = Append(@, MakeUnit(b))]
  /\ enq_log' = [enq_log EXCEPT ![s] = Append(@, MakeUnit(b))]
  /\ last_flush_set' = [last_flush_set EXCEPT ![s] = TRUE]
  /\ wait_exceeded' = [wait_exceeded EXCEPT ![s] = FALSE]

\* BatchProcessor.flush on the batch b: the buffer is swapped for an empty
\* one and a non-empty b is enqueued as one unit; last_flush_time is updated.
Flush(s, b) ==
  IF b # <<>>
  THEN /\ current_batch' = [current_batch EXCEPT ![s] = <<>>]
       /\ save_queue' = [save_queue EXCEPT ![s] = Append(@, MakeUnit(b))]
       /\ enq_log' = [enq_log EXCEPT ![s] = Append(@, MakeUnit(b))]
       /\ last_flush_set' = [last_flush_set EXCEPT ![s] = TRUE]
       /\ wait_exceeded' = [wait_exceeded EXCEPT ![s] = FALSE]
  ELSE /\ current_batch' = [current_batch EXCEPT ![s] = b]
       /\ UNCHANGED <<save_queue, enq_log, last_flush_set, wait_exceeded>>

\* An add_item that first waits until the units enqueued before are
\* written.
AddItemWaits(s, entry) ==
  LET b == Append(current_batch[s], entry)
  IN /\ save_queue[s] = <<>>
     /\ worker[s] # "store"
     /\ added' = [added EXCEPT ![s] = Append(@, entry)]
     /\ IF IsWaitTimeExceeded(s) \/ IsBatchFull(b, cfg[s].batch_size)
        THEN Flush(s, b)
        ELSE /\ current_batch' = [current_batch EXCEPT ![s] = b]
             /\ last_flush_set' = [last_flush_set EXCEPT ![s] = TRUE]
             /\ UNCHANGED <<save_queue, enq_log, wait_exceeded>>

\* An add_item that looks whether the batch is full before it appends.
AddItemChecksFirst(s, entry) ==
  LET b == Append(current_batch[s], entry)
  IN /\ added' = [added EXCEPT ![s] = Append(@, entry)]
     /\ IF IsWaitTimeExceeded(s) \/ IsBatchFull(current_batch[s], cfg[s].batch_size)
        THEN Flush(s, b)
        ELSE /\ current_batch' = [current_batch EXCEPT ![s] = b]
             /\ last_flush_set' = [last_flush_set EXCEPT ![s] = TRUE]
             /\ UNCHANGED <<save_queue, enq_log, wait_exceeded>>

\* BatchProcessor.add_item
AddItem(s, entry) ==
  LET b == Append(current_batch[s], entry)
  IN /\ added' = [added EXCEPT ![s] = Append(@, entry)]
     /\ IF IsWaitTimeExceeded(s) \/ IsBatchFull(b, cfg[s].batch_size)
        THEN Flush(s, b)
        ELSE /\ current_batch' = [current_batch EXCEPT ![s] = b]
             /\ last_flush_set' = [last_flush_set EXCEPT ![s] = TRUE]
             /\ UNCHANGED <<save_queue, enq_log, wait_exceeded>>

\* Time passes: more than max_wait_time since last_flush_time.
Tick(s) ==
  /\ status[s] = "live"
  /\ cfg[s].max_wait_time
  /\ last_flush_set[s]
  /\ ~wait_exceeded[s]
  /\ ~shutdown[s]
  /\ wait_exceeded' = [wait_exceeded EXCEPT ![s] = TRUE]
  /\ UNCHANGED <<registry_vars, cfg, cached_inputs, current_batch, last_flush_set,
                 added, enq_log, shutdown, save_queue, worker_vars, storage, write_log,
                 caller_vars, calls, result_vars, ret, faults>>

\* ------------------------------------------------------------ Snapper.start
\* start(), up to the first resumption of get_remaining: the iterable is
\* materialised and cached, the tracker created and initialised (stored
\* inputs loaded, function version compared and stored). A run is started
\* on a batch processor that was not shut down before.
StartBegin(s) ==
  LET d == ident[s].id
      st == storage[d]
      v == ComputeHash(cfg[s].fv)
  IN /\ cur = 0
     /\ status[s] = "live"
     /\ start_result[s] = "none"
     /\ ~shutdown[s]
     /\ cached_inputs' = [cached_inputs EXCEPT ![s] = [set |-> TRUE, val |-> cfg[s].iterable]]
     /\ pset' = InitProcessedSet(st.inputs, st.fn_version, v)
     /\ storage' = [storage EXCEPT ![d].fn_version = v]
     /\ idx' = 0
     /\ cur' = s
     /\ pc' = "loop"
     /\ calls' = [calls EXCEPT ![s] = <<>>]
     /\ start_result' = [start_result EXCEPT ![s] = "running"]
     /\ base_inputs' = [base_inputs EXCEPT ![s] = st.inputs]
     /\ ret' = NoRet
     /\ UNCHANGED <<registry_vars, cfg, proc_vars, shutdown, save_queue, worker_vars,
                    write_log, fn_halted, exit_result, faults>>

\* A loop that swallows the exception of fn and goes on.
StartItemSwallows(s, ok) ==
  LET it == cached_inputs[s].val
      j == NextRemaining(it, idx, pset)
  IN /\ cur = s
     /\ pc = "loop"
     /\ j # 0
     /\ calls' = [calls EXCEPT ![s] = Append(@, it[j])]
     /\ idx' = j
     /\ IF ok
        THEN /\ AddItem(s, Entry(it[j], Fn(cfg[s].fv, it[j])))
             /\ pset' = MarkProcessed(pset, it[j])
             /\ UNCHANGED <<pc, fn_halted>>
        ELSE /\ fn_halted' = [fn_halted EXCEPT ![s] = TRUE]
             /\ UNCHANGED <<pc, proc_vars, save_queue, pset>>
     /\ UNCHANGED <<registry_vars, cfg, cached_inputs, shutdown, worker_vars, storage, write_log,
                    cur, start_result, exit_result, base_inputs, ret, faults>>

\* One turn of the loop in start(): the generator yields the next remaining
\* item, fn is invoked on it; when fn returns, the result is added to the
\* batch processor and the item marked processed; when fn raises, the
\* exception leaves the loop for the finally clause.
StartItem(s, ok) ==
  LET it == cached_inputs[s].val
      j == NextRemaining(it, idx, pset)
  IN /\ cur = s
     /\ pc = "loop"
     /\ j # 0
     /\ calls' = [calls EXCEPT ![s] = Append(@, it[j])]
     /\ idx' = j
     /\ IF ok
        THEN /\ AddItem(s, Entry(it[j], Fn(cfg[s].fv, it[j])))
             /\ pset' = MarkProcessed(pset, it[j])
             /\ UNCHANGED <<pc, fn_halted>>
        ELSE /\ pc' = "finally"
             /\ fn_halted' = [fn_halted EXCEPT ![s] = TRUE]
             /\ UNCHANGED <<proc_vars, save_queue, pset>>
     /\ UNCHANGED <<registry_vars, cfg, cached_inputs, shutdown, worker_vars, storage, write_log,
                    cur, start_result, exit_result, base_inputs, ret, faults>>

\* The generator is exhausted: start() flushes the batch processor.
StartFlush(s) ==
  /\ cur = s
  /\ pc = "loop"
  /\ NextRemaining(cached_inputs[s].val, idx, pset) = 0
  /\ Flush(s, current_batch[s])
  /\ pc' = "finally"
  /\ UNCHANGED <<registry_vars, cfg, cached_inputs, added, shutdown, worker_vars,
                 storage, write_log, cur, idx, pset, calls, result_vars, ret, faults>>

\* How start() ends once shutdown() has returned or raised.
StartOutcome(s, storage_failed) ==
  IF storage_failed THEN "storage_error"
  ELSE IF fn_halted[s] THEN "fn_error" ELSE "ok"

\* A finally clause that flushes the batch buffer before the shutdown.
StartShutdownFlushes(s) ==
  LET b == current_batch[s]
      q == IF b = <<>> THEN save_queue[s] ELSE Append(save_queue[s], MakeUnit(b))
  IN /\ cur = s
     /\ pc = "finally"
     /\ ~shutdown[s]
     /\ shutdown' = [shutdown EXCEPT ![s] = TRUE]
     /\ save_queue' = [save_queue EXCEPT ![s] = Append(q, Sentinel)]
     /\ current_batch' = [current_batch EXCEPT ![s] = <<>>]
     /\ enq_log' = [enq_log EXCEPT ![s] = IF b = <<>> THEN @ ELSE Append(@, MakeUnit(b))]
     /\ pc' = "start_join"
     /\ UNCHANGED <<registry_vars, cfg, cached_inputs, last_flush_set, wait_exceeded,
                    added, worker_vars, storage, write_log, cur, start_result, idx, pset,
                    calls, fn_halted, exit_result, base_inputs, ret, faults>>

\* A shutdown that throws the batch buffer away.
StartShutdownClears(s) ==
  /\ cur = s
  /\ pc = "finally"
  /\ ~shutdown[s]
  /\ shutdown' = [shutdown EXCEPT ![s] = TRUE]
  /\ save_queue' = [save_queue EXCEPT ![s] = Append(@, Sentinel)]
  /\ current_batch' = [current_batch EXCEPT ![s] = <<>>]
  /\ pc' = "start_join"
  /\ UNCHANGED <<registry_vars, cfg, cached_inputs, last_flush_set, wait_exceeded,
                 added, enq_log, worker_vars, storage, write_log, cur, start_result, idx,
                 pset, calls, fn_halted, exit_result, base_inputs, ret, faults>>

\* The finally clause of start(): BatchStorageWorker.shutdown up to the
\* sentinel. A shutdown already begun returns at once.
StartShutdown(s) ==
  /\ cur = s
  /\ pc = "finally"
  /\ IF shutdown[s]
     THEN /\ start_result' = [start_result EXCEPT ![s] = StartOutcome(s, FALSE)]
          /\ cur' = 0
          /\ pc' = "idle"
          /\ UNCHANGED <<shutdown, save_queue>>
     ELSE /\ shutdown' = [shutdown EXCEPT ![s] = TRUE]
          /\ save_queue' = [save_queue EXCEPT ![s] = Append(@, Sentinel)]
          /\ pc' = "start_join"
          /\ UNCHANGED <<cur, start_result>>
  /\ UNCHANGED <<registry_vars, cfg, cached_inputs, proc_vars, worker_vars, storage, write_log,
                 idx, pset, calls, fn_halted, exit_result, base_inputs, ret, faults>>

\* A shutdown that does not wait for the queue and the thread.
JoinedAtOnce(s) == TRUE

\* BatchStorageWorker.shutdown past the joins: the queue has drained and the
\* worker thread has ended; a recorded storage failure is raised.
Joined(s) == save_queue[s] = <<>> /\ worker[s] = "stopped"

\* BatchProcessor.shutdown as Snapper calls it: the shutdown of the
\* processor's BatchStorageWorker, whose deferred failure reaches the caller.
ProcessorShutdownRaises(s) == failed_exception[s]

StartJoin(s) ==
  /\ cur = s
  /\ pc = "start_join"
  /\ Joined(s)
  /\ start_result' = [start_result EXCEPT ![s] = StartOutcome(s, ProcessorShutdownRaises(s))]
  /\ cur' = 0
  /\ pc' = "idle"
  /\ UNCHANGED <<registry_vars, cfg, cached_inputs, proc_vars, shutdown, save_queue,
                 worker_vars, storage, write_log, idx, pset, calls, fn_halted,
                 exit_result, base_inputs, ret, faults>>

\* ------------------------------------------------------ BatchStorageWorker
\* A worker that takes the newest item of the queue.
WorkerGetNewest(s) ==
  LET q == save_queue[s]
  IN /\ worker[s] = "get"
     /\ q # <<>>
     /\ save_queue' = [save_queue EXCEPT ![s] = SubSeq(q, 1, Len(q) - 1)]
     /\ IF q[Len(q)].sentinel
        THEN /\ worker' = [worker EXCEPT ![s] = "stopped"]
             /\ UNCHANGED <<w_item, attempt>>
        ELSE /\ worker' = [worker EXCEPT ![s] = "store"]
             /\ w_item' = [w_item EXCEPT ![s] = q[Len(q)]]
             /\ attempt' = [attempt EXCEPT ![s] = 0]
     /\ UNCHANGED <<registry_vars, cfg, cached_inputs, proc_vars, shutdown,
                    failed_exception, storage, write_log, caller_vars, calls,
                    result_vars, ret, faults>>

\* _save_worker, the blocking get: the sentinel ends the thread, a unit
\* enters the retry loop.
WorkerGet(s) ==
  /\ worker[s] = "get"
  /\ save_queue[s] # <<>>
  /\ save_queue' = [save_queue EXCEPT ![s] = Tail(@)]
  /\ IF Head(save_queue[s]).sentinel
     THEN /\ worker' = [worker EXCEPT ![s] = "stopped"]
          /\ UNCHANGED <<w_item, attempt>>
     ELSE /\ worker' = [worker EXCEPT ![s] = "store"]
          /\ w_item' = [w_item EXCEPT ![s] = Head(save_queue[s])]
          /\ attempt' = [attempt EXCEPT ![s] = 0]
  /\ UNCHANGED <<registry_vars, cfg, cached_inputs, proc_vars, shutdown,
                 failed_exception, storage, write_log, caller_vars, calls, result_vars, ret,
                 faults>>

\* A retry loop with one attempt too many.
RetriesLeftOneMore(s) == attempt[s] <= MaxRetries

\* _save_worker, `for attempt in range(self.max_retries + 1)`: is there
\* another attempt after the current one?
RetriesLeft(s) == attempt[s] < MaxRetries

\* A worker that forgets the failure of a unit.
RecordFailureNot(s) == failed_exception

\* _save_worker past the retry loop: `self._failed_exception = last_exception`.
RecordFailure(s) == [failed_exception EXCEPT ![s] = TRUE]

\* A worker thread that ends when a unit has failed on every attempt.
WorkerDiesAfterFailure(s) == [worker EXCEPT ![s] = "stopped"]

\* _save_worker past a unit that failed on every attempt: task_done() and
\* the next turn of `while True`.
WorkerAfterFailure(s) == [worker EXCEPT ![s] = "get"]

\* _save_worker, one attempt of the retry loop: store_snapshot appends the
\* unit, or raises; after max_retries + 1 failed attempts the exception is
\* kept for shutdown() and the worker goes on with the next unit.
WorkerStore(s, ok) ==
  /\ worker[s] = "store"
  /\ IF ok
     THEN /\ storage' = [storage EXCEPT ![cfg[s].sid] =
                           StoreSnapshot(@, w_item[s].outputs, w_item[s].inputs)]
          /\ write_log' = [write_log EXCEPT ![cfg[s].sid] = Append(@, w_item[s])]
          /\ worker' = [worker EXCEPT ![s] = "get"]
          /\ UNCHANGED <<attempt, failed_exception, faults>>
     ELSE /\ faults < MaxFaults
          /\ faults' = faults + 1
          /\ IF RetriesLeft(s)
             THEN /\ attempt' = [attempt EXCEPT ![s] = @ + 1]
                  /\ UNCHANGED <<worker, failed_exception>>
             ELSE /\ failed_exception' = RecordFailure(s)
                  /\ worker' = WorkerAfterFailure(s)
                  /\ UNCHANGED attempt
          /\ UNCHANGED <<storage, write_log>>
  /\ UNCHANGED <<registry_vars, cfg, cached_inputs, proc_vars, shutdown, save_queue,
                 w_item, caller_vars, calls, result_vars, ret>>

\* ------------------------------------------------------ load and load_all
CurrentInputs(s) ==
  IF cached_inputs[s].set THEN cached_inputs[s].val ELSE cfg[s].iterable

\* Snapper.load
Load(s) ==
  /\ cur = 0
  /\ status[s] = "live"
  /\ ret' = [op |-> "load", s |-> s,
             val |-> LoadResult(storage[cfg[s].sid], CurrentInputs(s))]
  /\ UNCHANGED <<registry_vars, cfg, cached_inputs, proc_vars, shutdown, save_queue,
                 worker_vars, storage, write_log, caller_vars, calls, result_vars, faults>>

\* Snapper.load_all
LoadAll(s) ==
  /\ cur = 0
  /\ status[s] = "live"
  /\ ret' = [op |-> "load_all", s |-> s, val |-> LoadAllResult(storage[cfg[s].sid])]
  /\ UNCHANGED <<registry_vars, cfg, cached_inputs, proc_vars, shutdown, save_queue,
                 worker_vars, storage, write_log, caller_vars, calls, result_vars, faults>>

\* ----------------------------------------------------------------- teardown
\* Snapper._release_storage: discard the instance's identifier.
ReleaseStorage(s) == active_storages \ {ident[s].id}

\* Snapper.__exit__: shutdown() of the batch processor, then
\* _release_storage(). A shutdown already begun returns at once; otherwise
\* the sentinel is pushed and the caller waits in the joins.
Exit(s) ==
  /\ cur = 0
  /\ status[s] = "live"
  /\ exit_result[s] = "none"
  /\ IF shutdown[s]
     THEN /\ active_storages' = ReleaseStorage(s)
          /\ status' = [status EXCEPT ![s] = "released"]
          /\ exit_result' = [exit_result EXCEPT ![s] = "ok"]
          /\ UNCHANGED <<shutdown, save_queue, cur, pc>>
     ELSE /\ shutdown' = [shutdown EXCEPT ![s] = TRUE]
          /\ save_queue' = [save_queue EXCEPT ![s] = Append(@, Sentinel)]
          /\ cur' = s
          /\ pc' = "exit_join"
          /\ UNCHANGED <<active_storages, status, exit_result>>
  /\ ret' = NoRet
  /\ UNCHANGED <<ident, cfg, cached_inputs, proc_vars, worker_vars, storage, write_log,
                 idx, pset, calls, start_result, fn_halted, base_inputs, faults>>

\* __exit__ past the joins of shutdown(): a recorded storage failure is
\* raised out of __exit__, otherwise the storage is released.
ExitJoin(s) ==
  /\ cur = s
  /\ pc = "exit_join"
  /\ Joined(s)
  /\ IF ProcessorShutdownRaises(s)
     THEN /\ exit_result' = [exit_result EXCEPT ![s] = "storage_error"]
          /\ UNCHANGED <<active_storages, status>>
     ELSE /\ active_storages' = ReleaseStorage(s)
          /\ status' = [status EXCEPT ![s] = "released"]
          /\ exit_result' = [exit_result EXCEPT ![s] = "ok"]
  /\ cur' = 0
  /\ pc' = "idle"
  /\ UNCHANGED <<ident, cfg, cached_inputs, proc_vars, shutdown, save_queue, worker_vars,
                 storage, write_log, idx, pset, calls, start_result, fn_halted,
                 base_inputs, ret, faults>>

\* An explicit call of Snapper._release_storage().
Release(s) ==
  /\ cur = 0
  /\ status[s] = "live"
  /\ active_storages' = ReleaseStorage(s)
  /\ status' = [status EXCEPT ![s] = "released"]
  /\ ret' = NoRet
  /\ UNCHANGED <<ident, cfg, cached_inputs, proc_vars, shutdown, save_queue, worker_vars,
                 storage, write_log, caller_vars, calls, result_vars, faults>>

\* A finaliser that releases unconditionally, with the identifier the
\* constructor was given.
DelReleaseUnguarded(s) == active_storages \ {cfg[s].sid}

\* Snapper.__del__: _release_storage() only when the attribute
\* _storage_identifier exists, which a failed __init__ never set.
DelRelease(s) == IF ident[s].has THEN ReleaseStorage(s) ELSE active_storages

\* The instance is finalised: __del__ runs, the instance and its batch
\* processor are gone afterwards ("discarded" is the finalised instance
\* whose __init__ had raised; its constructor arguments are kept on record).
Del(s) ==
  /\ cur = 0
  /\ status[s] \in {"live", "released", "failed"}
  /\ save_queue[s] = <<>>
  /\ worker[s] # "store"
  /\ active_storages' = DelRelease(s)
  /\ status' = [status EXCEPT ![s] = IF status[s] = "failed" THEN "discarded"
                                     ELSE "deleted"]
  /\ ident' = [ident EXCEPT ![s] = NoIdent]
  /\ cfg' = [cfg EXCEPT ![s] = IF status[s] = "failed" THEN @ ELSE NoCfg]
  /\ cached_inputs' = [cached_inputs EXCEPT ![s] = NoValue]
  /\ current_batch' = [current_batch EXCEPT ![s] = <<>>]
  /\ last_flush_set' = [last_flush_set EXCEPT ![s] = FALSE]
  /\ wait_exceeded' = [wait_exceeded EXCEPT ![s] = FALSE]
  /\ shutdown' = [shutdown EXCEPT ![s] = FALSE]
  /\ worker' = [worker EXCEPT ![s] = "none"]
  /\ w_item' = [w_item EXCEPT ![s] = Sentinel]
  /\ attempt' = [attempt EXCEPT ![s] = 0]
  /\ failed_exception' = [failed_exception EXCEPT ![s] = FALSE]
  /\ calls' = [calls EXCEPT ![s] = <<>>]
  /\ added' = [added EXCEPT ![s] = <<>>]
  /\ enq_log' = [enq_log EXCEPT ![s] = <<>>]
  /\ start_result' = [start_result EXCEPT ![s] = "none"]
  /\ fn_halted' = [fn_halted EXCEPT ![s] = FALSE]
  /\ exit_result' = [exit_result EXCEPT ![s] = "none"]
  /\ base_inputs' = [base_inputs EXCEPT ![s] = <<>>]
  /\ ret' = NoRet
  /\ UNCHANGED <<save_queue, storage, write_log, caller_vars, faults>>

\* A caller that uses the instance's batch processor itself
\* (snapper.batch_processor.add_item, or a batch processor it injected).
AddItemDirect(s, x) ==
  /\ cur = 0
  /\ status[s] = "live"
  /\ ~shutdown[s]
  /\ Len(added[s]) < MaxLen
  /\ AddItem(s, Entry(x, Fn(cfg[s].fv, x)))
  /\ ret' = NoRet
  /\ UNCHANGED <<registry_vars, cfg, cached_inputs, shutdown, worker_vars, storage, write_log,
                 caller_vars, calls, result_vars, faults>>

\* ------------------------------------- BatchStorageWorker, used by threads
\* The unit a client thread makes for its n-th batch of one pair.
NewUnit(n) ==
  [sentinel |-> FALSE,
   outputs |-> <<Fn(1, [kind |-> "int", v |-> n])>>,
   inputs |-> <<[kind |-> "int", v |-> n]>>,
   metrics |-> <<>>]

Call(op, outcome, late) == [op |-> op, outcome |-> outcome, late |-> late]

\* A shutdown() that has set _shutdown, pushed its sentinel and come back
\* from the joins: no caller is between the flag and its return.
FirstShutdownCompleted(s) ==
  /\ shutdown[s]
  /\ \A t \in Threads : tpc[t] \notin {"sentinel", "join"}
  /\ ~(cur = s /\ pc \in {"start_join", "exit_join"})

\* enqueue_batch, the check of _shutdown under _shutdown_lock: RuntimeError
\* when shutdown() was invoked, otherwise the caller goes on to the put.
EnqueueCheck(s, t) ==
  /\ worker[s] # "none"
  /\ tpc[t] = "idle"
  /\ n_units < MaxUnits
  /\ IF shutdown[s]
     THEN /\ t_ret' = [t_ret EXCEPT ![t] =
                         Call("enqueue", "rejected", FirstShutdownCompleted(s))]
          /\ UNCHANGED <<tpc, t_unit, n_units>>
     ELSE /\ tpc' = [tpc EXCEPT ![t] = "put"]
          /\ t_unit' = [t_unit EXCEPT ![t] = NewUnit(n_units + 1)]
          /\ n_units' = n_units + 1
          /\ t_ret' = [t_ret EXCEPT ![t] = NoCall]
  /\ UNCHANGED <<registry_vars, cfg, cached_inputs, proc_vars, shutdown, save_queue,
                 worker_vars, storage, write_log, caller_vars, calls, result_vars, ret,
                 faults, put_log, attempt_log, policy_vars, metrics_vars>>

\* enqueue_batch, the put on the queue, outside the lock.
EnqueuePut(s, t) ==
  /\ tpc[t] = "put"
  /\ save_queue' = [save_queue EXCEPT ![s] = Append(@, t_unit[t])]
  /\ put_log' = Append(put_log, t_unit[t])
  /\ tpc' = [tpc EXCEPT ![t] = "idle"]
  /\ t_unit' = [t_unit EXCEPT ![t] = Sentinel]
  /\ t_ret' = [t_ret EXCEPT ![t] = Call("enqueue", "ok", FALSE)]
  /\ UNCHANGED <<registry_vars, cfg, cached_inputs, proc_vars, shutdown, worker_vars,
                 storage, write_log, caller_vars, calls, result_vars, ret, faults,
                 n_units, attempt_log, policy_vars, metrics_vars>>

\* A shutdown() that never finds the flag set.
ShutdownAlreadyNever(s) == FALSE

\* shutdown(), the check under _shutdown_lock.
ShutdownAlready(s) == shutdown[s]

\* shutdown(), the locked block: return at once when _shutdown is set,
\* otherwise set it.
ShutdownBegin(s, t) ==
  /\ worker[s] # "none"
  /\ tpc[t] = "idle"
  /\ IF ShutdownAlready(s)
     THEN /\ t_ret' = [t_ret EXCEPT ![t] =
                         Call("shutdown", "ok", FirstShutdownCompleted(s))]
          /\ UNCHANGED <<tpc, shutdown>>
     ELSE /\ shutdown' = [shutdown EXCEPT ![s] = TRUE]
          /\ tpc' = [tpc EXCEPT ![t] = "sentinel"]
          /\ t_ret' = [t_ret EXCEPT ![t] = NoCall]
  /\ UNCHANGED <<registry_vars, cfg, cached_inputs, proc_vars, save_queue, worker_vars,
                 storage, write_log, caller_vars, calls, result_vars, ret, faults,
                 t_unit, n_units, put_log, attempt_log, policy_vars, metrics_vars>>

\* shutdown(), the sentinel is put on the queue.
ShutdownSentinel(s, t) ==
  /\ tpc[t] = "sentinel"
  /\ save_queue' = [save_queue EXCEPT ![s] = Append(@, Sentinel)]
  /\ put_log' = Append(put_log, Sentinel)
  /\ tpc' = [tpc EXCEPT ![t] = "join"]
  /\ UNCHANGED <<registry_vars, cfg, cached_inputs, proc_vars, shutdown, worker_vars,
                 storage, write_log, caller_vars, calls, result_vars, ret, faults,
                 t_unit, t_ret, n_units, attempt_log, policy_vars, metrics_vars>>

\* shutdown() past _save_queue.join() and _worker_thread.join(): the
\* deferred failure is raised, or the call returns.
ShutdownJoin(s, t) ==
  /\ tpc[t] = "join"
  /\ Joined(s)
  /\ tpc' = [tpc EXCEPT ![t] = "idle"]
  /\ t_ret' = [t_ret EXCEPT ![t] =
                 Call("shutdown", IF failed_exception[s] THEN "raised" ELSE "ok", FALSE)]
  /\ UNCHANGED <<registry_vars, cfg, cached_inputs, proc_vars, shutdown, save_queue,
                 worker_vars, storage, write_log, caller_vars, calls, result_vars, ret,
                 faults, t_unit, n_units, put_log, attempt_log, policy_vars, metrics_vars>>

\* History: what a caller's step put on the queue of s.
LogPuts(s) ==
  put_log' = put_log \o SubSeq(save_queue'[s], Len(save_queue[s]) + 1,
                               Len(save_queue'[s]))

\* History: the attempt of store_snapshot the worker of s makes.
LogAttempt(s, ok) ==
  attempt_log' = Append(attempt_log, [unit |-> w_item[s], n |-> attempt[s], ok |-> ok])

\* ------------------------------------------------------------ specification
\* Runs on one storage: instances constructed one after the other on the
\* same identifier, with the same function and no max_wait_time.
RunSnappers == 1..NRun

\* What the operations of a Snapper without client threads of its worker
\* and with the default error policy leave alone.
ext_vars == <<thread_vars, policy_vars, metrics_vars>>

RunIterables == SeqsUpTo(Items, MaxLen)

Next ==
  \/ \E s \in RunSnappers, it \in RunIterables, bs \in 1..MaxBatch :
        Construct(s, "X", it, bs, FALSE, 1) /\ UNCHANGED ext_vars
  \/ \E s \in RunSnappers : StartBegin(s) /\ UNCHANGED ext_vars
  \/ \E s \in RunSnappers, ok \in BOOLEAN : StartItem(s, ok) /\ UNCHANGED ext_vars
  \/ \E s \in RunSnappers : StartFlush(s) /\ UNCHANGED ext_vars
  \/ \E s \in RunSnappers : StartShutdown(s) /\ UNCHANGED ext_vars
  \/ \E s \in RunSnappers : StartJoin(s) /\ UNCHANGED ext_vars
  \/ \E s \in RunSnappers : WorkerGet(s) /\ UNCHANGED ext_vars
  \/ \E s \in RunSnappers, ok \in BOOLEAN : WorkerStore(s, ok) /\ UNCHANGED ext_vars
  \/ \E s \in RunSnappers : Load(s) /\ UNCHANGED ext_vars
  \/ \E s \in RunSnappers : LoadAll(s) /\ UNCHANGED ext_vars
  \/ \E s \in RunSnappers : Exit(s) /\ UNCHANGED ext_vars
  \/ \E s \in RunSnappers : ExitJoin(s) /\ UNCHANGED ext_vars
  \/ \E s \in RunSnappers : Del(s) /\ UNCHANGED ext_vars

Spec == Init /\ [][Next]_vars

\* The registry: instances on two identifiers, constructed, started, left,
\* released and finalised in any order.
RegIterables == SeqsUpTo({IntItem}, RegLen)

NextReg ==
  \/ \E s \in Snappers, sid \in SIDS, it \in RegIterables :
        Construct(s, sid, it, 1, FALSE, 1) /\ UNCHANGED ext_vars
  \/ \E s \in Snappers : StartBegin(s) /\ UNCHANGED ext_vars
  \/ \E s \in Snappers, ok \in BOOLEAN : StartItem(s, ok) /\ UNCHANGED ext_vars
  \/ \E s \in Snappers : StartFlush(s) /\ UNCHANGED ext_vars
  \/ \E s \in Snappers : StartShutdown(s) /\ UNCHANGED ext_vars
  \/ \E s \in Snappers : StartJoin(s) /\ UNCHANGED ext_vars
  \/ \E s \in Snappers : WorkerGet(s) /\ UNCHANGED ext_vars
  \/ \E s \in Snappers, ok \in BOOLEAN : WorkerStore(s, ok) /\ UNCHANGED ext_vars
  \/ \E s \in Snappers : Exit(s) /\ UNCHANGED ext_vars
  \/ \E s \in Snappers : ExitJoin(s) /\ UNCHANGED ext_vars
  \/ \E s \in Snappers : Release(s) /\ UNCHANGED ext_vars
  \/ \E s \in Snappers : Del(s) /\ UNCHANGED ext_vars

SpecReg == Init /\ [][NextReg]_vars

\* Scoped use: instances on one identifier whose caller also feeds the
\* batch processor itself before the scope is left.
NextScope ==
  \/ \E s \in RunSnappers, it \in RegIterables, bs \in 1..MaxBatch :
        Construct(s, "X", it, bs, FALSE, 1) /\ UNCHANGED ext_vars
  \/ \E s \in RunSnappers, x \in {IntItem, ObjItem} : AddItemDirect(s, x) /\ UNCHANGED ext_vars
  \/ \E s \in RunSnappers : StartBegin(s) /\ UNCHANGED ext_vars
  \/ \E s \in RunSnappers, ok \in BOOLEAN : StartItem(s, ok) /\ UNCHANGED ext_vars
  \/ \E s \in RunSnappers : StartFlush(s) /\ UNCHANGED ext_vars
  \/ \E s \in RunSnappers : StartShutdown(s) /\ UNCHANGED ext_vars
  \/ \E s \in RunSnappers : StartJoin(s) /\ UNCHANGED ext_vars
  \/ \E s \in RunSnappers : WorkerGet(s) /\ UNCHANGED ext_vars
  \/ \E s \in RunSnappers, ok \in BOOLEAN : WorkerStore(s, ok) /\ UNCHANGED ext_vars
  \/ \E s \in RunSnappers : Exit(s) /\ UNCHANGED ext_vars
  \/ \E s \in RunSnappers : ExitJoin(s) /\ UNCHANGED ext_vars
  \/ \E s \in RunSnappers : Del(s) /\ UNCHANGED ext_vars

SpecScope == Init /\ [][NextScope]_vars

\* Batch boundaries: one instance over iterables long enough for several
\* units, with no max_wait_time.
BatchIterables == SeqsUpTo({IntItem, ObjItem}, MaxAdds)

NextBatch ==
  \/ \E it \in BatchIterables, bs \in 1..MaxBatchSize :
        Construct(1, "X", it, bs, FALSE, 1) /\ UNCHANGED ext_vars
  \/ StartBegin(1) /\ UNCHANGED ext_vars
  \/ \E ok \in BOOLEAN : StartItem(1, ok) /\ UNCHANGED ext_vars
  \/ StartFlush(1) /\ UNCHANGED ext_vars
  \/ StartShutdown(1) /\ UNCHANGED ext_vars
  \/ StartJoin(1) /\ UNCHANGED ext_vars
  \/ WorkerGet(1) /\ UNCHANGED ext_vars
  \/ \E ok \in BOOLEAN : WorkerStore(1, ok) /\ UNCHANGED ext_vars

SpecBatch == Init /\ [][NextBatch]_vars

\* Time-based flushes: one instance with max_wait_time set; time may pass
\* the threshold at any moment after last_flush_time was set.
NextWait ==
  \/ \E it \in BatchIterables, bs \in 1..MaxBatchSize :
        Construct(1, "X", it, bs, TRUE, 1) /\ UNCHANGED ext_vars
  \/ StartBegin(1) /\ UNCHANGED ext_vars
  \/ \E ok \in BOOLEAN : StartItem(1, ok) /\ UNCHANGED ext_vars
  \/ Tick(1) /\ UNCHANGED ext_vars
  \/ StartFlush(1) /\ UNCHANGED ext_vars
  \/ StartShutdown(1) /\ UNCHANGED ext_vars
  \/ StartJoin(1) /\ UNCHANGED ext_vars
  \/ WorkerGet(1) /\ UNCHANGED ext_vars
  \/ \E ok \in BOOLEAN : WorkerStore(1, ok) /\ UNCHANGED ext_vars

SpecWait == Init /\ [][NextWait]_vars

\* The same instance, whose batch processor a caller may also use itself.
\* Time passes, a run that has begun goes on and the worker thread runs:
\* these are fair. Constructing, starting a run and adding an item are up
\* to the caller, who may stop doing so.
WaitTick == Tick(1) /\ UNCHANGED ext_vars

WaitItem == \E ok \in BOOLEAN : StartItem(1, ok) /\ UNCHANGED ext_vars

WaitFlush == StartFlush(1) /\ UNCHANGED ext_vars

WaitShutdown == StartShutdown(1) /\ UNCHANGED ext_vars

WaitJoin == StartJoin(1) /\ UNCHANGED ext_vars

WaitWorkerGet == WorkerGet(1) /\ UNCHANGED ext_vars

WaitWorkerStore == \E ok \in BOOLEAN : WorkerStore(1, ok) /\ UNCHANGED ext_vars

NextWaitFair ==
  \/ \E it \in BatchIterables, bs \in 1..MaxBatchSize :
        Construct(1, "X", it, bs, TRUE, 1) /\ UNCHANGED ext_vars
  \/ \E x \in {IntItem, ObjItem} : AddItemDirect(1, x) /\ UNCHANGED ext_vars
  \/ StartBegin(1) /\ UNCHANGED ext_vars
  \/ WaitItem
  \/ WaitTick
  \/ WaitFlush
  \/ WaitShutdown
  \/ WaitJoin
  \/ WaitWorkerGet
  \/ WaitWorkerStore

SpecWaitFair ==
  /\ Init
  /\ [][NextWaitFair]_vars
  /\ WF_vars(WaitTick)
  /\ WF_vars(WaitItem)
  /\ WF_vars(WaitFlush)
  /\ WF_vars(WaitShutdown)
  /\ WF_vars(WaitJoin)
  /\ WF_vars(WaitWorkerGet)
  /\ WF_vars(WaitWorkerStore)

\* The worker of one instance: either client threads enqueue units and shut
\* it down, concurrently, or start() drives it; every put and every
\* attempt is logged. The units are pairwise different.
WorkerIterables ==
  {q \in SeqsUpTo({IntItem, ObjItem}, MaxLen) :
     \A i \in 1..Len(q), j \in 1..Len(q) : i # j => q[i] # q[j]}

NoClientCalls ==
  /\ n_units = 0
  /\ \A t \in Threads : tpc[t] = "idle" /\ t_ret[t] = NoCall

NoRun == start_result[1] = "none"

NextWorker ==
  \/ \E it \in WorkerIterables :
        Construct(1, "X", it, 1, FALSE, 1) /\ UNCHANGED ext_vars
  \/ \E t \in Threads : EnqueueCheck(1, t) /\ NoRun
  \/ \E t \in Threads : EnqueuePut(1, t)
  \/ \E t \in Threads : ShutdownBegin(1, t) /\ NoRun
  \/ \E t \in Threads : ShutdownSentinel(1, t)
  \/ \E t \in Threads : ShutdownJoin(1, t)
  \/ StartBegin(1) /\ NoClientCalls /\ UNCHANGED ext_vars
  \/ \E ok \in BOOLEAN :
        StartItem(1, ok) /\ LogPuts(1)
          /\ UNCHANGED <<tpc, t_unit, t_ret, n_units, attempt_log, policy_vars, metrics_vars>>
  \/ StartFlush(1) /\ LogPuts(1)
       /\ UNCHANGED <<tpc, t_unit, t_ret, n_units, attempt_log, policy_vars, metrics_vars>>
  \/ StartShutdown(1) /\ LogPuts(1)
       /\ UNCHANGED <<tpc, t_unit, t_ret, n_units, attempt_log, policy_vars, metrics_vars>>
  \/ StartJoin(1) /\ UNCHANGED ext_vars
  \/ WorkerGet(1) /\ UNCHANGED ext_vars
  \/ \E ok \in BOOLEAN :
        WorkerStore(1, ok) /\ LogAttempt(1, ok)
          /\ UNCHANGED <<tpc, t_unit, t_ret, n_units, put_log, policy_vars, metrics_vars>>

SpecWorker == Init /\ [][NextWorker]_vars

\* --------------------------------------------------------- ItemErrorHandler
\* The kinds of exception fn raises: an ordinary one, and one that a
\* configuration may list in fatal_exceptions.
ExcKinds == {"ItemError", "FatalError"}

\* What start() raises when the consecutive limit is reached.
LimitError == "RuntimeError"

Policies ==
  [skip : BOOLEAN, fatal : {{}, {"FatalError"}},
   maxc : {NoLimit} \cup (1..MaxConsecutive)]

\* A handler that looks at skip_item_errors before fatal_exceptions.
OnItemErrorSkipFirst(p, count, exc) ==
  IF ~p.skip THEN "halt"
  ELSE IF p.maxc # NoLimit /\ count + 1 >= p.maxc THEN "limit"
  ELSE "skip"

\* A handler that skips whatever skip_item_errors is.
OnItemErrorSkipsAnyway(p, count, exc) ==
  IF exc \in p.fatal THEN "halt"
  ELSE IF p.maxc # NoLimit /\ count + 1 >= p.maxc THEN "limit"
  ELSE "skip"

\* A handler that lets one failure more pass before the limit.
OnItemErrorLimitLate(p, count, exc) ==
  IF exc \in p.fatal THEN "halt"
  ELSE IF ~p.skip THEN "halt"
  ELSE IF p.maxc # NoLimit /\ count + 1 > p.maxc THEN "limit"
  ELSE "skip"

\* ItemErrorHandler.on_item_error, its decision: "halt" is the return of
\* False (the caller re-raises), "limit" the RuntimeError raised from the
\* exception, "skip" the return of True.
OnItemError(p, count, exc) ==
  IF exc \in p.fatal THEN "halt"
  ELSE IF ~p.skip THEN "halt"
  ELSE IF p.maxc # NoLimit /\ count + 1 >= p.maxc THEN "limit"
  ELSE "skip"

\* ItemErrorHandler.on_item_error, its effect on the handler: the count
\* is incremented past the fatal and the skip checks, the failure is
\* appended only when the item is skipped.
HandlerOnError(s, item, exc) ==
  LET dec == OnItemError(policy[s], consecutive_count[s], exc)
  IN /\ consecutive_count' =
          [consecutive_count EXCEPT ![s] = IF dec = "halt" THEN @ ELSE @ + 1]
     /\ failed_items' =
          [failed_items EXCEPT
             ![s] = IF dec = "skip" THEN Append(@, [item |-> item, exc |-> exc]) ELSE @]
     /\ halt_kind' =
          [halt_kind EXCEPT
             ![s] = IF dec = "halt" THEN exc ELSE IF dec = "limit" THEN LimitError ELSE @]

\* ItemErrorHandler.on_item_success.
HandlerOnSuccess(s) ==
  /\ consecutive_count' = [consecutive_count EXCEPT ![s] = 0]
  /\ UNCHANGED <<failed_items, halt_kind>>

\* A reset that keeps the failure record.
HandlerResetKeeps(s) ==
  /\ consecutive_count' = [consecutive_count EXCEPT ![s] = 0]
  /\ UNCHANGED <<failed_items, halt_kind>>

\* ItemErrorHandler.reset.
HandlerReset(s) ==
  /\ failed_items' = [failed_items EXCEPT ![s] = <<>>]
  /\ consecutive_count' = [consecutive_count EXCEPT ![s] = 0]
  /\ UNCHANGED halt_kind

\* Snapper.__init__ with the arguments of the error policy.
ConstructWithPolicy(s, it, p) ==
  /\ Construct(s, "X", it, 1, FALSE, 1)
  /\ policy' = [policy EXCEPT ![s] = p]
  /\ UNCHANGED <<thread_vars, failed_items, consecutive_count, halt_kind, error_log,
                 fn_log, metrics_vars>>

\* on_item_error called on the handler of a Snapper that has not run yet:
\* what an earlier use of the handler leaves in failed_items and the count.
HandlerEarlierError(s, item, exc) ==
  LET dec == OnItemError(policy[s], consecutive_count[s], exc)
  IN /\ status[s] = "live"
     /\ start_result[s] = "none"
     /\ cur = 0
     /\ dec # "halt"
     /\ Len(failed_items[s]) < MaxEarlier
     /\ consecutive_count[s] < MaxEarlier
     /\ consecutive_count' = [consecutive_count EXCEPT ![s] = @ + 1]
     /\ failed_items' =
          [failed_items EXCEPT
             ![s] = IF dec = "skip" THEN Append(@, [item |-> item, exc |-> exc]) ELSE @]
     /\ UNCHANGED <<registry_vars, cfg, cached_inputs, proc_vars, shutdown, save_queue,
                    worker_vars, storage, write_log, caller_vars, calls, result_vars,
                    ret, faults, thread_vars, policy, halt_kind, error_log, fn_log,
                    metrics_vars>>

\* start() begins a run: the handler is reset.
StartRun(s) ==
  /\ StartBegin(s)
  /\ HandlerReset(s)
  /\ UNCHANGED <<thread_vars, policy, error_log, fn_log, metrics_vars>>

\* One turn of the loop in which fn returns: on_item_success, then the
\* result is added and the item marked processed.
StartItemReturns(s) ==
  /\ StartItem(s, TRUE)
  /\ HandlerOnSuccess(s)
  /\ fn_log' = [fn_log EXCEPT ![s] = Append(@, "returned")]
  /\ UNCHANGED <<thread_vars, policy, error_log>>

\* A skip that marks the failed item processed.
StartItemSkipMarks(s) ==
  LET it == cached_inputs[s].val
      j == NextRemaining(it, idx, pset)
  IN /\ cur = s
     /\ pc = "loop"
     /\ j # 0
     /\ calls' = [calls EXCEPT ![s] = Append(@, it[j])]
     /\ idx' = j
     /\ pset' = MarkProcessed(pset, it[j])
     /\ UNCHANGED <<registry_vars, cfg, cached_inputs, proc_vars, shutdown, save_queue,
                    worker_vars, storage, write_log, cur, pc, result_vars, ret, faults>>

\* One turn of the loop in which fn raises and the handler says skip: the
\* loop goes on, nothing is added, the item is not marked processed.
StartItemSkip(s) ==
  LET it == cached_inputs[s].val
      j == NextRemaining(it, idx, pset)
  IN /\ cur = s
     /\ pc = "loop"
     /\ j # 0
     /\ calls' = [calls EXCEPT ![s] = Append(@, it[j])]
     /\ idx' = j
     /\ UNCHANGED <<registry_vars, cfg, cached_inputs, proc_vars, shutdown, save_queue,
                    worker_vars, storage, write_log, cur, pc, pset, result_vars,
                    ret, faults>>

\* One turn of the loop in which fn raises exc: the handler is consulted;
\* halt and the consecutive limit leave the loop for the finally clause.
StartItemRaises(s, exc) ==
  LET it == cached_inputs[s].val
      j == NextRemaining(it, idx, pset)
  IN /\ cur = s
     /\ pc = "loop"
     /\ j # 0
     /\ IF OnItemError(policy[s], consecutive_count[s], exc) = "skip"
        THEN StartItemSkip(s)
        ELSE StartItem(s, FALSE)
     /\ HandlerOnError(s, it[j], exc)
     /\ error_log' = [error_log EXCEPT ![s] = Append(@, [item |-> it[j], exc |-> exc])]
     /\ fn_log' = [fn_log EXCEPT ![s] = Append(@, exc)]
     /\ UNCHANGED <<thread_vars, policy>>

PolicyIterables == SeqsUpTo({IntItem, ObjItem}, PolicyLen)

\* One Snapper with an error policy, batch_size 1, run once; the storage
\* may fail.
NextPolicy ==
  \/ \E it \in PolicyIterables, p \in Policies : ConstructWithPolicy(1, it, p)
  \/ \E exc \in ExcKinds : HandlerEarlierError(1, IntItem, exc)
  \/ StartRun(1)
  \/ StartItemReturns(1) /\ UNCHANGED metrics_vars
  \/ \E exc \in ExcKinds : StartItemRaises(1, exc) /\ UNCHANGED metrics_vars
  \/ StartFlush(1) /\ UNCHANGED ext_vars
  \/ StartShutdown(1) /\ UNCHANGED ext_vars
  \/ StartJoin(1) /\ UNCHANGED ext_vars
  \/ WorkerGet(1) /\ UNCHANGED ext_vars
  \/ \E ok \in BOOLEAN : WorkerStore(1, ok) /\ UNCHANGED ext_vars

SpecPolicy == Init /\ [][NextPolicy]_vars

\* ------------------------------------------------------ runs after skips
\* The skip policy of the runs that are repeated; one kind of exception is
\* fatal.
RetryPolicy == [skip |-> TRUE, fatal |-> {"FatalError"}, maxc |-> NoLimit]

RetryIterables == SeqsUpTo(Items, MaxLen)

\* Two Snappers with the skip policy, one after the other on the storage
\* X: the first is released before the second can be constructed.
NextRetry ==
  \/ \E s \in RunSnappers, it \in RetryIterables : ConstructWithPolicy(s, it, RetryPolicy)
  \/ \E s \in RunSnappers : StartRun(s)
  \/ \E s \in RunSnappers : StartItemReturns(s) /\ UNCHANGED metrics_vars
  \/ \E s \in RunSnappers, exc \in ExcKinds :
        StartItemRaises(s, exc) /\ UNCHANGED metrics_vars
  \/ \E s \in RunSnappers : StartFlush(s) /\ UNCHANGED ext_vars
  \/ \E s \in RunSnappers : StartShutdown(s) /\ UNCHANGED ext_vars
  \/ \E s \in RunSnappers : StartJoin(s) /\ UNCHANGED ext_vars
  \/ \E s \in RunSnappers : WorkerGet(s) /\ UNCHANGED ext_vars
  \/ \E s \in RunSnappers, ok \in BOOLEAN : WorkerStore(s, ok) /\ UNCHANGED ext_vars
  \/ \E s \in RunSnappers : Release(s) /\ UNCHANGED ext_vars

SpecRetry == Init /\ [][NextRetry]_vars

\* ----------------------------------------------------- processing metrics
\* ProcessingMetric of one call of fn: the item, whether fn returned, and
\* the text of the exception when it raised.
Metric(item, outcome) ==
  [input_item |-> item,
   success |-> (outcome = "returned"),
   error_message |-> IF outcome = "returned" THEN "none" ELSE outcome]

\* SnapshotStorage.store_metrics: the metrics are added to the stored ones.
StoreMetrics(stored, metrics) == stored \o metrics

\* Snapper.__init__ of a Snapper whose runs record metrics.
ConstructForMetrics(s, it, bs, p) ==
  /\ Construct(s, "X", it, bs, FALSE, 1)
  /\ policy' = [policy EXCEPT ![s] = p]
  /\ UNCHANGED <<thread_vars, failed_items, consecutive_count, halt_kind, error_log,
                 fn_log, metrics_vars>>

\* The metric m of the call of fn of this step is recorded before the
\* result is handed to the batch processor; a flush in the same step
\* enqueues the recorded metrics with its unit.
MetricsFollow(s, m) ==
  LET recorded == Append(pending_metrics[s], m)
  IN /\ IF Len(enq_log'[s]) > Len(enq_log[s])
        THEN /\ metrics_queue' = [metrics_queue EXCEPT ![s] = Append(@, recorded)]
             /\ pending_metrics' = [pending_metrics EXCEPT ![s] = <<>>]
        ELSE /\ pending_metrics' = [pending_metrics EXCEPT ![s] = recorded]
             /\ UNCHANGED metrics_queue
     /\ UNCHANGED <<w_metrics, stored_metrics>>

\* One turn of the loop in which fn returns, with its metric.
MetricsItemReturns(s) ==
  LET it == cached_inputs[s].val
      j == NextRemaining(it, idx, pset)
  IN /\ StartItemReturns(s)
     /\ MetricsFollow(s, Metric(it[j], "returned"))

\* One turn of the loop in which fn raises exc, with its metric.
MetricsItemRaises(s, exc) ==
  LET it == cached_inputs[s].val
      j == NextRemaining(it, idx, pset)
  IN /\ StartItemRaises(s, exc)
     /\ MetricsFollow(s, Metric(it[j], exc))

\* The flush at the end of the loop: the metrics recorded since the last
\* flush go with the unit of the buffer.
MetricsFlush(s) ==
  /\ current_batch[s] # <<>> \/ pending_metrics[s] = <<>>
  /\ StartFlush(s)
  /\ IF current_batch[s] # <<>>
     THEN /\ metrics_queue' = [metrics_queue EXCEPT ![s] = Append(@, pending_metrics[s])]
          /\ pending_metrics' = [pending_metrics EXCEPT ![s] = <<>>]
     ELSE UNCHANGED <<metrics_queue, pending_metrics>>
  /\ UNCHANGED <<w_metrics, stored_metrics, thread_vars, policy_vars>>

\* The flush at the end of the loop when the buffer is empty and metrics
\* are still to be enqueued: a unit without outputs carries them.
MetricsFlushOnly(s) ==
  /\ cur = s
  /\ pc = "loop"
  /\ NextRemaining(cached_inputs[s].val, idx, pset) = 0
  /\ current_batch[s] = <<>>
  /\ pending_metrics[s] # <<>>
  /\ save_queue' = [save_queue EXCEPT ![s] = Append(@, MakeUnit(<<>>))]
  /\ enq_log' = [enq_log EXCEPT ![s] = Append(@, MakeUnit(<<>>))]
  /\ metrics_queue' = [metrics_queue EXCEPT ![s] = Append(@, pending_metrics[s])]
  /\ pending_metrics' = [pending_metrics EXCEPT ![s] = <<>>]
  /\ pc' = "finally"
  /\ UNCHANGED <<registry_vars, cfg, cached_inputs, current_batch, last_flush_set,
                 wait_exceeded, added, shutdown, worker_vars, storage, write_log, cur,
                 idx, pset, calls, result_vars, ret, faults, w_metrics, stored_metrics,
                 thread_vars, policy_vars>>

\* _save_worker, the blocking get: the metrics are part of the unit taken.
MetricsWorkerGet(s) ==
  /\ WorkerGet(s)
  /\ IF Head(save_queue[s]).sentinel
     THEN UNCHANGED <<metrics_queue, w_metrics>>
     ELSE /\ w_metrics' = [w_metrics EXCEPT ![s] = Head(metrics_queue[s])]
          /\ metrics_queue' = [metrics_queue EXCEPT ![s] = Tail(@)]
  /\ UNCHANGED <<pending_metrics, stored_metrics, thread_vars, policy_vars>>

\* A worker that calls store_metrics before store_snapshot: the metrics
\* are stored in every attempt, also in one whose store_snapshot raises.
MetricsWorkerStoreFirst(s, ok) ==
  /\ WorkerStore(s, ok)
  /\ IF w_metrics[s] # <<>>
     THEN stored_metrics' =
            [stored_metrics EXCEPT ![cfg[s].sid] = StoreMetrics(@, w_metrics[s])]
     ELSE UNCHANGED stored_metrics
  /\ UNCHANGED <<pending_metrics, metrics_queue, w_metrics, thread_vars, policy_vars>>

\* _save_worker, one attempt: store_snapshot, then `if metrics:
\* store_metrics(metrics)`; ok says whether store_snapshot returned.
MetricsWorkerStore(s, ok) ==
  /\ WorkerStore(s, ok)
  /\ IF ok /\ w_metrics[s] # <<>>
     THEN stored_metrics' =
            [stored_metrics EXCEPT ![cfg[s].sid] = StoreMetrics(@, w_metrics[s])]
     ELSE UNCHANGED stored_metrics
  /\ UNCHANGED <<pending_metrics, metrics_queue, w_metrics, thread_vars, policy_vars>>

\* _save_worker, one attempt in which store_snapshot returns and
\* store_metrics raises: the snapshot is written, the metrics are not, and
\* the attempt counts as failed.
MetricsWorkerStoreRaises(s) ==
  /\ worker[s] = "store"
  /\ w_metrics[s] # <<>>
  /\ faults < MaxFaults
  /\ faults' = faults + 1
  /\ storage' = [storage EXCEPT ![cfg[s].sid] =
                   StoreSnapshot(@, w_item[s].outputs, w_item[s].inputs)]
  /\ write_log' = [write_log EXCEPT ![cfg[s].sid] = Append(@, w_item[s])]
  /\ IF RetriesLeft(s)
     THEN /\ attempt' = [attempt EXCEPT ![s] = @ + 1]
          /\ UNCHANGED <<worker, failed_exception>>
     ELSE /\ failed_exception' = RecordFailure(s)
          /\ worker' = WorkerAfterFailure(s)
          /\ UNCHANGED attempt
  /\ UNCHANGED <<registry_vars, cfg, cached_inputs, proc_vars, shutdown, save_queue,
                 w_item, caller_vars, calls, result_vars, ret, metrics_vars,
                 thread_vars, policy_vars>>

MetricsPolicies ==
  {[skip |-> sk, fatal |-> {"FatalError"}, maxc |-> NoLimit] : sk \in BOOLEAN}

MetricsIterables == SeqsUpTo({IntItem, ObjItem}, MaxLen)

\* Two Snappers whose runs record metrics, one after the other on the
\* storage X; store_snapshot and store_metrics may fail.
NextMetrics ==
  \/ \E s \in RunSnappers, it \in MetricsIterables, bs \in 1..MaxBatch,
        p \in MetricsPolicies : ConstructForMetrics(s, it, bs, p)
  \/ \E s \in RunSnappers : StartRun(s)
  \/ \E s \in RunSnappers : MetricsItemReturns(s)
  \/ \E s \in RunSnappers, exc \in ExcKinds : MetricsItemRaises(s, exc)
  \/ \E s \in RunSnappers : MetricsFlush(s)
  \/ \E s \in RunSnappers : MetricsFlushOnly(s)
  \/ \E s \in RunSnappers : StartShutdown(s) /\ UNCHANGED ext_vars
  \/ \E s \in RunSnappers : StartJoin(s) /\ UNCHANGED ext_vars
  \/ \E s \in RunSnappers : MetricsWorkerGet(s)
  \/ \E s \in RunSnappers, ok \in BOOLEAN : MetricsWorkerStore(s, ok)
  \/ \E s \in RunSnappers : MetricsWorkerStoreRaises(s)
  \/ \E s \in RunSnappers : Release(s) /\ UNCHANGED ext_vars

SpecMetrics == Init /\ [][NextMetrics]_vars

\* ------------------------------------------- the tracker across versions
Versions == 1..MaxVersions

\* Snapper.__init__ with the function version fv and the skip policy.
ConstructWithVersion(s, it, fv) ==
  /\ Construct(s, "X", it, 1, FALSE, fv)
  /\ policy' = [policy EXCEPT ![s] = RetryPolicy]
  /\ UNCHANGED <<thread_vars, failed_items, consecutive_count, halt_kind, error_log,
                 fn_log, metrics_vars>>

\* Two Snappers with the skip policy, one after the other on the storage
\* X, each with its own version of the function; the storage does not
\* fail.
NextTracker ==
  \/ \E s \in RunSnappers, it \in RetryIterables, fv \in Versions :
        ConstructWithVersion(s, it, fv)
  \/ \E s \in RunSnappers : StartRun(s)
  \/ \E s \in RunSnappers : StartItemReturns(s) /\ UNCHANGED metrics_vars
  \/ \E s \in RunSnappers, exc \in ExcKinds :
        StartItemRaises(s, exc) /\ UNCHANGED metrics_vars
  \/ \E s \in RunSnappers : StartFlush(s) /\ UNCHANGED ext_vars
  \/ \E s \in RunSnappers : StartShutdown(s) /\ UNCHANGED ext_vars
  \/ \E s \in RunSnappers : StartJoin(s) /\ UNCHANGED ext_vars
  \/ \E s \in RunSnappers : WorkerGet(s) /\ UNCHANGED ext_vars
  \/ \E s \in RunSnappers : WorkerStore(s, TRUE) /\ UNCHANGED ext_vars
  \/ \E s \in RunSnappers : Release(s) /\ UNCHANGED ext_vars

SpecTracker == Init /\ [][NextTracker]_vars

\* Runs and loads across versions: Snappers one after the other on the
\* storage X, each with its own version of the function, and load() on
\* any of them that is not running; the storage does not fail.
NextLoad ==
  \/ \E s \in RunSnappers, it \in RunIterables, fv \in Versions :
        Construct(s, "X", it, 1, FALSE, fv) /\ UNCHANGED ext_vars
  \/ \E s \in RunSnappers : StartBegin(s) /\ UNCHANGED ext_vars
  \/ \E s \in RunSnappers, ok \in BOOLEAN : StartItem(s, ok) /\ UNCHANGED ext_vars
  \/ \E s \in RunSnappers : StartFlush(s) /\ UNCHANGED ext_vars
  \/ \E s \in RunSnappers : StartShutdown(s) /\ UNCHANGED ext_vars
  \/ \E s \in RunSnappers : StartJoin(s) /\ UNCHANGED ext_vars
  \/ \E s \in RunSnappers : WorkerGet(s) /\ UNCHANGED ext_vars
  \/ \E s \in RunSnappers : WorkerStore(s, TRUE) /\ UNCHANGED ext_vars
  \/ \E s \in RunSnappers : Load(s) /\ UNCHANGED ext_vars
  \/ \E s \in RunSnappers : Release(s) /\ UNCHANGED ext_vars

SpecLoad == Init /\ [][NextLoad]_vars

\* ------------------------------------------------------------------ claims
\* An instance is live from its successful construction until its scope is
\* left with a release, it is released explicitly, or it is finalised.
Live(s) == status[s] = "live"

\* The live instance that registered the identifier d.
Holder(h, d) == Live(h) /\ ident[h].has /\ ident[h].id = d

\* C2: over any interleaving of constructions, scope exits, explicit
\* releases and finalisers, no two live instances are bound to the same
\* storage identifier at the same time.
C2_NoTwoLiveOnOneIdentifier ==
  \A a \in Snappers, b \in Snappers :
     (a # b /\ Live(a) /\ Live(b)) => ident[a].id # ident[b].id

\* C3: constructing on an identifier that a live instance has registered
\* fails with the concurrent-use error and leaves the registry as it was;
\* finalising the failed instance leaves the registry as it was too, so
\* nothing leaks and the holder's entry stays.
C3_FailedConstructionKeepsRegistry ==
  [][\A s \in Snappers :
       /\ (/\ status[s] = "unborn"
           /\ status'[s] # "unborn"
           /\ cfg'[s].sid \in active_storages
           /\ \E h \in Snappers : Holder(h, cfg'[s].sid))
          => (/\ status'[s] = "failed"
              /\ ~ident'[s].has
              /\ active_storages' = active_storages)
       /\ (status[s] = "failed" /\ status'[s] # "failed")
          => (/\ status'[s] = "discarded"
              /\ active_storages' = active_storages)]_vars

\* C3, its case: a construction failed on a live holder's identifier, the
\* failed instance was finalised, and the holder is still registered.
C3_Witness ==
  \E s \in Snappers, h \in Snappers :
     /\ status[s] = "discarded"
     /\ Holder(h, cfg[s].sid)
     /\ cfg[s].sid \in active_storages

RECURSIVE Concat(_)
Concat(ss) == IF ss = <<>> THEN <<>> ELSE Head(ss) \o Concat(Tail(ss))

UnitOutputs(log) == Concat([i \in 1..Len(log) |-> log[i].outputs])

UnitInputs(log) == Concat([i \in 1..Len(log) |-> log[i].inputs])

CeilDiv(k, n) == (k + n - 1) \div n

AllHashable(q) == \A i \in 1..Len(q) : Hashable(q[i])

Keys(q) == {MakeHashable(q[i]) : i \in {j \in 1..Len(q) : Hashable(q[j])}}

IsPrefix(p, q) == Len(p) <= Len(q) /\ SubSeq(q, 1, Len(p)) = p

\* The pair (x, fn(x)) is recorded in the storage contents st.
Recorded(st, x, y) ==
  \E j \in 1..Len(st.inputs) :
     j <= Len(st.outputs) /\ st.inputs[j] = x /\ st.outputs[j] = y

\* start() of s has returned.
Returned(s) == start_result[s] \in {"ok", "fn_error", "storage_error"}

\* No instance but those of A has started a run or was finalised: what the
\* storage holds was written by the runs of A.
OnlyRuns(A) ==
  \A r \in Snappers \ A : status[r] # "deleted" /\ start_result[r] = "none"

\* C5: when start() returns normally, every item fn was invoked on has its
\* (input, output) pair in storage, the batch buffer is empty and the
\* worker queue is empty.
C5_CompleteRun ==
  \A s \in Snappers :
     start_result[s] = "ok" =>
       /\ \A i \in 1..Len(calls[s]) :
             Recorded(storage[cfg[s].sid], calls[s][i], Fn(cfg[s].fv, calls[s][i]))
       /\ current_batch[s] = <<>>
       /\ save_queue[s] = <<>>

\* C5, its case: a run that returned normally after two invocations, one
\* of its units having needed a retry.
C5_Witness ==
  \E s \in Snappers :
     start_result[s] = "ok" /\ Len(calls[s]) = 2 /\ faults > 0

\* C9: load_all() returns every stored output in the order the units were
\* written, whatever the current input sequence is.
C9_LoadAllInWriteOrder ==
  ret.op = "load_all" => ret.val = UnitOutputs(write_log[cfg[ret.s].sid])

\* C9, its case: load_all() returned the outputs of two units, one of them
\* for an input that the current sequence does not hold.
C9_Witness ==
  /\ ret.op = "load_all"
  /\ Len(write_log[cfg[ret.s].sid]) >= 2
  /\ \E j \in 1..Len(ret.val) :
        \A i \in 1..Len(CurrentInputs(ret.s)) :
           CurrentInputs(ret.s)[i] # storage[cfg[ret.s].sid].inputs[j]

\* The loop of start() ended by exhaustion and the final flush was done.
FinalFlushDone(s) ==
  /\ ~fn_halted[s]
  /\ \/ cur = s /\ pc \in {"finally", "start_join"}
     \/ start_result[s] \in {"ok", "storage_error"}

\* C10: with batch_size N and no max_wait_time, k added items and the
\* final flush give exactly ceil(k/N) units, each but the last of exactly N
\* entries, the entries in the order they were added.
C10_BatchBoundary ==
  \A s \in Snappers :
     FinalFlushDone(s) =>
       LET log == enq_log[s]
           k == Len(added[s])
           N == cfg[s].batch_size
       IN /\ Len(log) = CeilDiv(k, N)
          /\ \A i \in 1..Len(log) :
                /\ Len(log[i].outputs) = Len(log[i].inputs)
                /\ Len(log[i].outputs) \in 1..N
                /\ i < Len(log) => Len(log[i].outputs) = N
          /\ UnitOutputs(log) = [i \in 1..k |-> added[s][i].out]
          /\ UnitInputs(log) = [i \in 1..k |-> added[s][i].inp]

\* C10, its case: three items with batch_size 2, a full unit and a last
\* unit of one entry.
C10_Witness ==
  \E s \in Snappers :
     /\ FinalFlushDone(s)
     /\ Len(added[s]) = 3
     /\ cfg[s].batch_size = 2
     /\ Len(enq_log[s]) = 2

\* The first element of the sequence q with the canonical key of x.
FirstWithKey(q, x) ==
  LET at == {j \in 1..Len(q) : MakeHashable(q[j]) = MakeHashable(x)}
  IN q[CHOOSE j \in at : \A k \in at : j <= k]

\* A first run of a over S was halted by fn, then a fresh instance b on the
\* same storage ran over S to completion, and b.load() has returned.
ResumedAndLoaded(a, b) ==
  /\ a < b
  /\ OnlyRuns({a, b})
  /\ status[a] # "deleted"
  /\ fn_halted[a]
  /\ Returned(a)
  /\ cfg[b].sid = cfg[a].sid
  /\ cfg[b].iterable = cfg[a].iterable
  /\ AllHashable(cfg[a].iterable)
  /\ start_result[b] = "ok"
  /\ ret.op = "load"
  /\ ret.s = b

\* C1 as stated: after a run over S halted by fn, a fresh instance on the
\* same storage whose start() over S completes has load() = [fn(x) : x in S].
C1_ResumeByValue ==
  \A a \in Snappers, b \in Snappers :
     ResumedAndLoaded(a, b) =>
       LET S == cfg[b].iterable
       IN ret.val = [i \in 1..Len(S) |-> Fn(cfg[b].fv, S[i])]

\* C1, amended: load() = [fn(r(x)) : x in S], where r(x) is the first
\* element of S with the canonical key of x; r(x) = x unless S holds a list
\* and a tuple with equal elements.
C1_ResumeByKey ==
  \A a \in Snappers, b \in Snappers :
     ResumedAndLoaded(a, b) =>
       LET S == cfg[b].iterable
       IN ret.val = [i \in 1..Len(S) |-> Fn(cfg[b].fv, FirstWithKey(S, S[i]))]

\* C1, its case: the first run stored one result and was halted at the
\* second element; the fresh run completed and load() returned.
C1_Witness ==
  \E a \in Snappers, b \in Snappers :
     /\ ResumedAndLoaded(a, b)
     /\ Len(calls[a]) = 2
     /\ Len(calls[b]) = 1
     /\ Len(ret.val) = 2

\* A run of a over S returned normally, then a fresh instance b on the same
\* storage started over S + T.
GrownRun(a, b) ==
  /\ a < b
  /\ OnlyRuns({a, b})
  /\ status[a] # "deleted"
  /\ start_result[a] = "ok"
  /\ cfg[b].sid = cfg[a].sid
  /\ IsPrefix(cfg[a].iterable, cfg[b].iterable)
  /\ start_result[b] # "none"

\* C6 as stated: the run over S + T invokes fn only on elements of T whose
\* value is not recorded, never on an element of S.
C6_GrowthAllValues ==
  \A a \in Snappers, b \in Snappers :
     GrownRun(a, b) =>
       LET S == cfg[a].iterable
           T == SubSeq(cfg[b].iterable, Len(S) + 1, Len(cfg[b].iterable))
       IN \A i \in 1..Len(calls[b]) :
             /\ calls[b][i] \notin Range(S)
             /\ calls[b][i] \in Range(T)
             /\ calls[b][i] \notin Range(base_inputs[b])

\* C6, amended: the run over S + T invokes fn on a hashable value only if
\* it is an element of T whose canonical key is not recorded, never on a
\* hashable element of S; unhashable elements are invoked again.
C6_GrowthHashable ==
  \A a \in Snappers, b \in Snappers :
     GrownRun(a, b) =>
       LET S == cfg[a].iterable
           T == SubSeq(cfg[b].iterable, Len(S) + 1, Len(cfg[b].iterable))
       IN \A i \in 1..Len(calls[b]) :
             Hashable(calls[b][i]) =>
               /\ calls[b][i] \notin Range(S)
               /\ calls[b][i] \in Range(T)
               /\ MakeHashable(calls[b][i]) \notin Keys(base_inputs[b])

\* C6, its case: S of one hashable element was processed, the fresh run
\* over S + T has returned having invoked fn on the one element of T.
C6_Witness ==
  \E a \in Snappers, b \in Snappers :
     /\ GrownRun(a, b)
     /\ Len(cfg[a].iterable) = 1
     /\ AllHashable(cfg[b].iterable)
     /\ Len(cfg[b].iterable) = 2
     /\ start_result[b] = "ok"
     /\ calls[b] = <<cfg[b].iterable[2]>>

\* The loop of start() of s ran to exhaustion over hashable inputs, fn
\* never raising.
PassDone(s) ==
  /\ start_result[s] # "none"
  /\ ~(cur = s /\ pc = "loop")
  /\ ~fn_halted[s]
  /\ AllHashable(cfg[s].iterable)

\* The number of invocations of fn by s that satisfy P.
Invocations(s, P(_)) == Cardinality({i \in 1..Len(calls[s]) : P(calls[s][i])})

\* C7 as stated: in one pass fn is invoked exactly once per distinct input
\* value that was not recorded when the pass began, and on nothing else.
C7_OncePerValue ==
  \A s \in Snappers :
     PassDone(s) =>
       LET new == Range(cfg[s].iterable) \ Range(base_inputs[s])
       IN /\ \A v \in new : LET Is(x) == x = v IN Invocations(s, Is) = 1
          /\ \A i \in 1..Len(calls[s]) : calls[s][i] \in new

\* C7, amended: in one pass fn is invoked exactly once per distinct
\* canonical key that was not recorded when the pass began, on the first
\* element with that key, and on nothing else.
C7_OncePerKey ==
  \A s \in Snappers :
     PassDone(s) =>
       LET S == cfg[s].iterable
           new == Keys(S) \ Keys(base_inputs[s])
       IN /\ \A k \in new :
                LET Has(x) == MakeHashable(x) = k IN Invocations(s, Has) = 1
          /\ \A i \in 1..Len(calls[s]) :
                /\ MakeHashable(calls[s][i]) \in new
                /\ calls[s][i] = FirstWithKey(S, calls[s][i])

\* C7, its case: a pass over a sequence that repeats a value, one
\* invocation made.
C7_Witness ==
  \E s \in Snappers :
     /\ PassDone(s)
     /\ Len(cfg[s].iterable) = 2
     /\ cfg[s].iterable[1] = cfg[s].iterable[2]
     /\ Len(calls[s]) = 1

\* The stored output of the value x: the one written last for it.
OutputOfValue(st, x) ==
  LET at == {j \in 1..Len(st.inputs) : st.inputs[j] = x}
  IN st.outputs[CHOOSE j \in at : \A k \in at : k <= j]

\* The stored output of the canonical key k: the one written last for it.
OutputOfKey(st, k) ==
  LET at == {j \in 1..Len(st.inputs) :
               Hashable(st.inputs[j]) /\ MakeHashable(st.inputs[j]) = k}
  IN st.outputs[CHOOSE j \in at : \A m \in at : m <= j]

\* C8 as stated: load() returns, in the order of the current inputs, the
\* stored output of each current input whose value is recorded; the others
\* are omitted.
C8_LoadByValue ==
  ret.op = "load" =>
    LET st == storage[cfg[ret.s].sid]
        IsRecorded(x) == x \in Range(st.inputs)
        cur_rec == SelectSeq(CurrentInputs(ret.s), IsRecorded)
    IN ret.val = [i \in 1..Len(cur_rec) |-> OutputOfValue(st, cur_rec[i])]

\* C8, amended: load() returns all stored outputs in storage order when no
\* inputs are stored or the current inputs equal the stored inputs element
\* by element; otherwise, in the order of the current inputs, for each
\* hashable current input whose canonical key is that of a hashable stored
\* input, the output stored last under that key, and nothing for the
\* others. After S was processed, load() with a permutation of S returns
\* fn of each element in the order of the permutation when S is hashable
\* and holds no list and tuple with equal elements. No step that returns
\* from load() invokes fn.
C8_LoadByKey ==
  /\ [](ret.op = "load" =>
          LET st == storage[cfg[ret.s].sid]
              ci == CurrentInputs(ret.s)
              IsMapped(x) == Hashable(x) /\ MakeHashable(x) \in Keys(st.inputs)
              cur_map == SelectSeq(ci, IsMapped)
          IN /\ IF st.inputs = <<>> \/ ci = st.inputs
                THEN ret.val = st.outputs
                ELSE ret.val = [i \in 1..Len(cur_map) |->
                                  OutputOfKey(st, MakeHashable(cur_map[i]))]
             /\ (/\ AllHashable(ci)
                 /\ Range(ci) = Range(st.inputs)
                 /\ Cardinality(Keys(ci)) = Cardinality(Range(ci)))
                => ret.val = [i \in 1..Len(ci) |-> Fn(cfg[ret.s].fv, ci[i])])
  /\ [][(ret'.op = "load" /\ ret' # ret) => calls' = calls]_vars

\* C8, its case: load() on a permutation of the processed sequence that is
\* not the stored order returned both outputs.
C8_Witness ==
  /\ ret.op = "load"
  /\ LET st == storage[cfg[ret.s].sid]
         ci == CurrentInputs(ret.s)
     IN /\ Len(ci) = 2
        /\ Len(st.inputs) = 2
        /\ ci # st.inputs
        /\ Range(ci) = Range(st.inputs)
        /\ Len(ret.val) = 2

\* ------------------------------------------------------ claims on the worker
\* The units put on the queue, the sentinel left out, in the order of the puts.
PutUnits ==
  LET IsUnit(x) == ~x.sentinel IN SelectSeq(put_log, IsUnit)

\* The units put on the queue before the sentinel.
DrainedUnits ==
  LET at == {i \in 1..Len(put_log) : put_log[i].sentinel}
      first == IF at = {} THEN Len(put_log) + 1
               ELSE CHOOSE i \in at : \A k \in at : i <= k
      IsUnit(x) == ~x.sentinel
  IN SelectSeq(SubSeq(put_log, 1, first - 1), IsUnit)

UnitsOf(log) == [i \in 1..Len(log) |-> log[i].unit]

\* The attempts of store_snapshot made for the unit u.
AttemptsOf(u) == {i \in 1..Len(attempt_log) : attempt_log[i].unit = u}

FailuresOf(u) == {i \in AttemptsOf(u) : ~attempt_log[i].ok}

Written(u) == \E i \in AttemptsOf(u) : attempt_log[i].ok

\* Every attempt for u failed and there were max_retries + 1 of them.
Exhausted(u) == ~Written(u) /\ Cardinality(FailuresOf(u)) = MaxRetries + 1

FullyAttempted(u) == Written(u) \/ Exhausted(u)

\* The position of the unit u in the sequence q of pairwise different units.
PosIn(q, u) == CHOOSE i \in 1..Len(q) : q[i] = u

\* C11: the worker attempts and writes the units in exactly the order they
\* were put on the queue, for every interleaving of callers and worker.
C11_WriteOrder ==
  LET IsFirst(a) == a.n = 0
      IsOk(a) == a.ok
      begun == UnitsOf(SelectSeq(attempt_log, IsFirst))
      written == UnitsOf(SelectSeq(attempt_log, IsOk))
  IN /\ IsPrefix(begun, PutUnits)
     /\ \A i \in 1..Len(attempt_log), j \in 1..Len(attempt_log) :
           i < j => PosIn(PutUnits, attempt_log[i].unit)
                      <= PosIn(PutUnits, attempt_log[j].unit)
     /\ write_log["X"] = written
     /\ storage["X"].outputs = UnitOutputs(written)

\* C11, its case: two threads put their units in the other order than they
\* made them, and both units were written.
C11_Witness ==
  /\ Len(put_log) >= 2
  /\ put_log[1] = NewUnit(2)
  /\ put_log[2] = NewUnit(1)
  /\ Len(write_log["X"]) = 2

\* C17: for every unit the worker makes at most max_retries + 1 attempts,
\* numbered from 0 without a gap; a successful attempt is the last one; a
\* unit the worker has left without success had exactly max_retries + 1
\* failed attempts and its failure is recorded.
C17_BoundedRetry ==
  \A k \in 1..Len(attempt_log) :
     LET u == attempt_log[k].unit
         mine == AttemptsOf(u)
         in_hand == worker[1] = "store" /\ w_item[1] = u
     IN /\ Cardinality(mine) <= MaxRetries + 1
        /\ attempt_log[k].n = Cardinality({i \in mine : i < k})
        /\ attempt_log[k].ok => \A i \in mine : i <= k
        /\ Written(u) => ~in_hand
        /\ (~in_hand /\ ~Written(u))
             => Cardinality(mine) = MaxRetries + 1 /\ failed_exception[1]

\* C17, its case: one unit failed max_retries + 1 times and was left,
\* the unit put after it was written at its first attempt.
C17_Witness ==
  \E u \in Range(PutUnits), v \in Range(PutUnits) :
     /\ Exhausted(u)
     /\ PosIn(PutUnits, u) < PosIn(PutUnits, v)
     /\ Written(v)
     /\ Cardinality(AttemptsOf(v)) = 1

\* C18: a unit that failed on every attempt does not stop the worker: the
\* worker ends only at the sentinel, with every unit put before the
\* sentinel attempted to the end, in order, so also before a shutdown()
\* that waited in the joins comes back.
C18_ConsumesAfterFailure ==
  /\ worker[1] = "stopped" =>
       /\ \E i \in 1..Len(put_log) : put_log[i].sentinel
       /\ \A i \in 1..Len(DrainedUnits) : FullyAttempted(DrainedUnits[i])
  /\ (\/ \E t \in Threads : t_ret[t] = Call("shutdown", "raised", FALSE)
      \/ start_result[1] = "storage_error")
       => /\ worker[1] = "stopped"
          /\ \E i \in 1..Len(DrainedUnits) : Exhausted(DrainedUnits[i])

\* C18, its case: the first unit failed on every attempt, the unit put
\* after it was written, and shutdown() raised the failure.
C18_Witness ==
  /\ Len(DrainedUnits) >= 2
  /\ Exhausted(DrainedUnits[1])
  /\ Written(DrainedUnits[2])
  /\ \E t \in Threads : t_ret[t] = Call("shutdown", "raised", FALSE)

\* The sentinels put on the queue so far.
Sentinels == {i \in 1..Len(put_log) : put_log[i].sentinel}

\* The thread t comes back from a shutdown() in this step.
ShutdownReturns(t) == t_ret'[t] # t_ret[t] /\ t_ret'[t].op = "shutdown"

\* The thread t comes back in this step from the shutdown() that put the
\* sentinel and waited in the two joins.
DrainReturns(t) == tpc[t] = "join" /\ tpc'[t] = "idle"

\* The start() of snapper 1 comes back in this step from the shutdown() of
\* its finally clause.
StartDrainReturns == pc = "start_join" /\ pc' # "start_join"

AllPutAttempted == \A i \in 1..Len(PutUnits) : FullyAttempted(PutUnits[i])

SomeExhausted == \E i \in 1..Len(PutUnits) : Exhausted(PutUnits[i])

\* C12: whenever a shutdown() comes back to its caller, normally or with
\* the deferred failure, every unit put before has been attempted to the
\* end, the queue is empty and the worker thread has ended.
C12_ShutdownDrains ==
  [][\A t \in Threads :
       ShutdownReturns(t) => /\ AllPutAttempted
                             /\ save_queue'[1] = <<>>
                             /\ worker'[1] = "stopped"]_vars

\* The part of C12 that the code keeps: the shutdown() that put the
\* sentinel, and the one in the finally clause of start(), come back with
\* every unit attempted, the queue empty and the worker ended.
DrainingShutdownDrains ==
  [][((\E t \in Threads : DrainReturns(t)) \/ StartDrainReturns)
       => /\ AllPutAttempted
          /\ save_queue'[1] = <<>>
          /\ worker'[1] = "stopped"]_vars

\* C13: once a first shutdown() has come back, a further shutdown() comes
\* back without error, no second sentinel is ever put, and the storage is
\* not written again.
C13_ShutdownIdempotent ==
  /\ [](Cardinality(Sentinels) <= 1)
  /\ [][FirstShutdownCompleted(1)
         => /\ storage' = storage
            /\ write_log' = write_log
            /\ attempt_log' = attempt_log
            /\ \A t \in Threads :
                  ShutdownReturns(t) => t_ret'[t] = Call("shutdown", "ok", TRUE)]_vars

\* C13, its case: a shutdown() called after the first one had raised the
\* deferred failure came back without error.
C13_Witness ==
  /\ failed_exception[1]
  /\ t_ret[1] = Call("shutdown", "raised", FALSE)
  /\ t_ret[2] = Call("shutdown", "ok", TRUE)

\* C14: with several callers inside shutdown() at once one sentinel is
\* put, and every caller comes back only when the queue has drained and
\* the worker thread has ended.
C14_ConcurrentShutdown ==
  /\ [](Cardinality(Sentinels) <= 1)
  /\ [][\A t \in Threads :
          ShutdownReturns(t) => save_queue'[1] = <<>> /\ worker'[1] = "stopped"]_vars

\* C15: an enqueue whose check comes after the shutdown flag is rejected,
\* and no unit is accepted behind the sentinel: when the worker has ended,
\* every unit whose enqueue returned normally has been attempted.
C15_NoSilentDrops ==
  /\ \A i \in Sentinels : i = Len(put_log)
  /\ worker[1] = "stopped" => AllPutAttempted

\* The part of C15 that the code keeps: an enqueue_batch whose check of the
\* flag comes after shutdown() has set it is rejected.
EnqueueAfterShutdownRejected ==
  [][\A t \in Threads :
       (shutdown[1] /\ tpc[t] = "idle" /\ t_ret'[t] # t_ret[t]
          /\ t_ret'[t].op = "enqueue")
         => t_ret'[t].outcome = "rejected" /\ put_log' = put_log]_vars

Finished == start_result[1] \notin {"none", "running"}

\* fn raises in this step.
FnRaises == Len(error_log'[1]) > Len(error_log[1])

LastRaised == error_log'[1][Len(error_log'[1])].exc

HandlerUnchanged ==
  failed_items' = failed_items /\ consecutive_count' = consecutive_count

RECURSIVE TrailingFailures(_)
\* The calls of fn at the end of the log that raised, back to the last
\* call that returned.
TrailingFailures(log) ==
  IF log = <<>> \/ log[Len(log)] = "returned" THEN 0
  ELSE 1 + TrailingFailures(SubSeq(log, 1, Len(log) - 1))

\* C21: under the skip policy with max_consecutive_exceptions = M the
\* RuntimeError of the limit is raised exactly at the M-th failure in a row
\* since the last success or the reset, never earlier; a success puts the
\* count back to 0; without a limit or without the skip policy it is never
\* raised.
C21_ConsecutiveLimit ==
  /\ [][(FnRaises /\ policy[1].skip /\ policy[1].maxc # NoLimit
           /\ LastRaised \notin policy[1].fatal)
          => IF TrailingFailures(fn_log'[1]) = policy[1].maxc
             THEN /\ halt_kind'[1] = LimitError
                  /\ pc' = "finally"
                  /\ failed_items' = failed_items
             ELSE /\ TrailingFailures(fn_log'[1]) < policy[1].maxc
                  /\ halt_kind'[1] = "none"
                  /\ pc' = "loop"]_vars
  /\ []((start_result[1] # "none" /\ policy[1].skip
           /\ halt_kind[1] \in {"none", LimitError})
          => consecutive_count[1] = TrailingFailures(fn_log[1]))
  /\ [](halt_kind[1] = LimitError
          => policy[1].skip /\ policy[1].maxc # NoLimit)

\* C21, its case: with M = 2 fn raised, returned, raised and raised again;
\* the limit was raised at the fourth call, not at the third.
C21_Witness ==
  /\ policy[1].maxc = 2
  /\ fn_log[1] = <<"ItemError", "returned", "ItemError", "ItemError">>
  /\ halt_kind[1] = LimitError
  /\ Len(failed_items[1]) = 2

\* C22: during and after a run failed_items holds the pairs of the items
\* skipped in this run, in the order fn raised for them: every failure but
\* the one that halted the run; the start of a run empties it and puts the
\* count to 0; entries exist only under the skip policy and never for a
\* fatal exception.
C22_FailedItems ==
  /\ [](start_result[1] # "none"
          => failed_items[1] =
               (IF halt_kind[1] # "none"
                THEN SubSeq(error_log[1], 1, Len(error_log[1]) - 1)
                ELSE error_log[1]))
  /\ [][(start_result[1] = "none" /\ start_result'[1] # "none")
          => failed_items'[1] = <<>> /\ consecutive_count'[1] = 0]_vars
  /\ [](\A i \in 1..Len(failed_items[1]) :
          policy[1].skip /\ failed_items[1][i].exc \notin policy[1].fatal)

\* C22, its case: the run skipped its first and its third item and the
\* limit halted it at the fourth, whose failure is not in failed_items.
C22_Witness ==
  /\ policy[1].maxc = 2
  /\ Len(error_log[1]) = 3
  /\ Len(failed_items[1]) = 2
  /\ halt_kind[1] = LimitError
  /\ fn_log[1] = <<"ItemError", "returned", "ItemError", "ItemError">>
  /\ failed_items[1][1].item = ObjItem

\* ------------------------------------------------------- claims on a halt
\* The outputs and the inputs of a sequence of accumulator entries.
EntryOutputs(b) == [i \in 1..Len(b) |-> b[i].out]

\* start() of snapper 1 was halted by fn and has come back.
HaltedAndBack == fn_halted[1] /\ start_result[1] \in {"fn_error", "storage_error"}

\* What C23 says of every halt but the storage part: after the halt the
\* buffer is what was added and not flushed, it is never flushed, and
\* once start() has come back the queue is empty and the worker ended.
HaltKeepsBuffer ==
  /\ fn_halted[1]
       => UnitOutputs(enq_log[1]) \o EntryOutputs(current_batch[1])
            = EntryOutputs(added[1])
  /\ HaltedAndBack => save_queue[1] = <<>> /\ worker[1] = "stopped"

HaltDecided == halt_kind'[1] # "none" /\ halt_kind[1] = "none"

ReturnedCalls(a) == {i \in 1..Len(calls[a]) : fn_log[a][i] = "returned"}

RaisedCalls(a) == {i \in 1..Len(calls[a]) : fn_log[a][i] # "returned"}

\* x and y are the same for the tracker: one canonical key.
SameKey(x, y) == Hashable(x) /\ Hashable(y) /\ MakeHashable(x) = MakeHashable(y)

\* fn returned in the run of a for x or for an element with the key of x.
SucceededLike(a, x) ==
  \E i \in ReturnedCalls(a) : calls[a][i] = x \/ SameKey(calls[a][i], x)

\* The first run went through under the skip policy; the second Snapper,
\* over the same sequence, has finished its loop without a halt.
RetriedAfterSkip ==
  /\ start_result[1] = "ok"
  /\ start_result[2] # "none"
  /\ ~(cur = 2 /\ pc = "loop")
  /\ halt_kind[2] = "none"
  /\ cfg[2].iterable = cfg[1].iterable

\* C25, as stated: an item skipped in the first run has no pair in
\* storage, and the second run over the same sequence invokes fn on every
\* item the first run skipped and on no item for which fn returned.
C25_SkippedRetriedAll ==
  /\ start_result[1] = "ok"
       => \A i \in RaisedCalls(1) : calls[1][i] \notin Range(base_inputs[2])
  /\ RetriedAfterSkip
       => /\ \A i \in RaisedCalls(1) : calls[1][i] \in Range(calls[2])
          /\ \A i \in ReturnedCalls(1) : calls[1][i] \notin Range(calls[2])

\* C25, amended: an item for which fn raised and was skipped is not marked
\* processed and, unless fn returned in that run for an element with the
\* same value or canonical key, nothing is stored under its value or key
\* when the second run begins;
\* the second run over the same sequence then invokes fn on an element
\* with that value or key, invokes fn on no hashable element whose key
\* succeeded in the first run, and invokes fn again on every unhashable
\* element.
C25_SkippedRetried ==
  /\ \A i \in RaisedCalls(1) :
        LET x == calls[1][i]
        IN ~SucceededLike(1, x) =>
             /\ (cur = 1 /\ Hashable(x)) => MakeHashable(x) \notin pset
             /\ LET stored == IF start_result[2] = "none" THEN storage["X"].inputs
                              ELSE base_inputs[2]
                IN \A j \in 1..Len(stored) : stored[j] # x /\ ~SameKey(stored[j], x)
             /\ RetriedAfterSkip =>
                   \E k \in 1..Len(calls[2]) :
                      calls[2][k] = x \/ SameKey(calls[2][k], x)
  /\ RetriedAfterSkip =>
        \A i \in ReturnedCalls(1) :
           LET x == calls[1][i]
           IN IF Hashable(x)
              THEN \A k \in 1..Len(calls[2]) : ~SameKey(calls[2][k], x)
              ELSE x \in Range(calls[2])

\* C25, its case: in the first run fn raised for the first item and
\* returned for the second; the second run invoked fn on the first item
\* alone and completed.
C25_Witness ==
  /\ start_result[1] = "ok"
  /\ cfg[1].iterable = <<IntItem, ListItem>>
  /\ fn_log[1] = <<"ItemError", "returned">>
  /\ cfg[2].iterable = cfg[1].iterable
  /\ calls[2] = <<IntItem>>
  /\ start_result[2] = "ok"

\* ------------------------------------------------- claims on the metrics
\* The metrics of the calls of fn in the run of instance a, in call order.
RunMetrics(a) == [i \in 1..Len(calls[a]) |-> Metric(calls[a][i], fn_log[a][i])]

RECURSIVE IsSubsequence(_, _)
IsSubsequence(p, q) ==
  IF p = <<>> THEN TRUE
  ELSE IF q = <<>> THEN FALSE
  ELSE IF Head(p) = Head(q) THEN IsSubsequence(Tail(p), Tail(q))
  ELSE IsSubsequence(p, Tail(q))

\* The stored metrics are those of run a in one block at the front or at
\* the end, and what is left comes from the run of instance b.
MetricsBlock(a, b) ==
  LET st == stored_metrics["X"]
      m == RunMetrics(a)
      n == Len(st) - Len(m)
  IN /\ n >= 0
     /\ \/ SubSeq(st, n + 1, Len(st)) = m /\ IsSubsequence(SubSeq(st, 1, n), RunMetrics(b))
        \/ SubSeq(st, 1, Len(m)) = m
             /\ IsSubsequence(SubSeq(st, Len(m) + 1, Len(st)), RunMetrics(b))

\* C26: once a start() has completed, the storage holds exactly one
\* metric for each call of fn of that run, in call order, with success set
\* for the calls that returned and the error text for those that raised;
\* the metrics another run stored are still there, and when both runs
\* completed the storage holds the metrics of both and nothing else.
C26_MetricsPerCall ==
  /\ start_result[1] = "ok" => MetricsBlock(1, 2)
  /\ start_result[2] = "ok" => MetricsBlock(2, 1)
  /\ (start_result[1] = "ok" /\ start_result[2] = "ok")
        => Len(stored_metrics["X"]) = Len(calls[1]) + Len(calls[2])
  /\ (start_result[1] = "ok" /\ calls[2] = <<>>)
        => stored_metrics["X"] = RunMetrics(1)

\* C26, its case: the first run called fn twice, the second call raised
\* and was skipped, so that its metric went out with no output; a second
\* run called fn again and completed, and the metrics of both are stored.
C26_Witness ==
  /\ start_result[1] = "ok"
  /\ fn_log[1] = <<"returned", "ItemError">>
  /\ start_result[2] = "ok"
  /\ fn_log[2] = <<"ItemError">>
  /\ Len(stored_metrics["X"]) = 3
  /\ faults > 0

\* ------------------------------------------------ claims on max_wait_time
\* This step is an add_item on the batch processor of instance 1.
AddStep == added'[1] # added[1]

\* The entry the add_item of this step was given.
AddedEntry == added'[1][Len(added'[1])]

\* More than max_wait_time has passed since last_flush_time, which the
\* first add_item or the last flush has set.
WaitElapsed == cfg[1].max_wait_time /\ last_flush_set[1] /\ wait_exceeded[1]

\* C27: with max_wait_time set, an add_item made when more than
\* max_wait_time has passed since the last flush (since the first add_item
\* when nothing was flushed yet) enqueues the buffer with the entry just
\* added as one unit and leaves the buffer empty; an add_item made earlier
\* that leaves the buffer below batch_size enqueues nothing.
C27_TimeBasedFlush ==
  [][AddStep =>
       LET b == Append(current_batch[1], AddedEntry)
       IN /\ WaitElapsed =>
               /\ enq_log'[1] = Append(enq_log[1], MakeUnit(b))
               /\ save_queue'[1] = Append(save_queue[1], MakeUnit(b))
               /\ current_batch'[1] = <<>>
          /\ (~WaitElapsed /\ Len(b) < cfg[1].batch_size) =>
               /\ enq_log'[1] = enq_log[1]
               /\ save_queue'[1] = save_queue[1]
               /\ current_batch'[1] = b]_vars

\* C27, its case: inside the loop a unit smaller than batch_size has been
\* enqueued, which only the wait time can have flushed, and a later
\* add_item has left its entry in the buffer.
C27_Witness ==
  /\ cur = 1
  /\ pc = "loop"
  /\ cfg[1].max_wait_time
  /\ cfg[1].batch_size = MaxBatchSize
  /\ Len(enq_log[1]) = 1
  /\ Len(enq_log[1][1].outputs) = 2
  /\ Len(current_batch[1]) = 1

\* The buffer of instance 1 holds entries that no halt of fn has left
\* behind.
Buffered ==
  /\ cfg[1].max_wait_time
  /\ current_batch[1] # <<>>
  /\ ~fn_halted[1]

\* C28: with max_wait_time set, a buffer that is not empty is eventually
\* handed to the worker, also when no further add_item arrives; the
\* buffer a halt of fn leaves behind is set apart.
C28_NeverHeld == Buffered ~> (current_batch[1] = <<>> \/ fn_halted[1])

\* -------------------------------------------- claims on the caller's waits
\* The caller of start() is inside the loop with an element left.
AtAdd ==
  /\ cur = 1
  /\ pc = "loop"
  /\ NextRemaining(cached_inputs[1].val, idx, pset) # 0

\* The turn of the loop in which fn returns and add_item is called.
AddTurn == StartItem(1, TRUE) /\ UNCHANGED ext_vars

\* C29: add_item, with the flush it triggers, never waits for a storage
\* write: in the loop it can always complete, whatever is queued or being
\* written, and it writes nothing itself; the caller waits only in
\* shutdown(), which returns once the queue is drained and the worker
\* thread has ended.
C29_NonBlockingAdd ==
  /\ [](AtAdd => ENABLED AddTurn)
  /\ [][AddStep => storage' = storage /\ write_log' = write_log]_vars
  /\ []((cur = 1 /\ ENABLED (StartJoin(1) /\ UNCHANGED ext_vars))
          => save_queue[1] = <<>> /\ worker[1] = "stopped")
  /\ [](cur = 1 => \/ pc = "start_join"
                   \/ ENABLED ((\E ok \in BOOLEAN : StartItem(1, ok) /\ UNCHANGED ext_vars)
                                 \/ (StartFlush(1) /\ UNCHANGED ext_vars)
                                 \/ (StartShutdown(1) /\ UNCHANGED ext_vars)))

\* C29, its case: with batch_size 1 all the batches of the run have been
\* enqueued while the first write is still going on and nothing is written.
C29_Witness ==
  /\ cur = 1
  /\ cfg[1].batch_size = 1
  /\ Len(enq_log[1]) = MaxAdds
  /\ Len(save_queue[1]) = MaxAdds - 1
  /\ worker[1] = "store"
  /\ write_log["X"] = <<>>
  /\ faults = 0

\* -------------------------------------------------- claims on the tracker
\* The canonical key of x is in the set K; an unhashable x has no key.
KeyIn(x, K) == Hashable(x) /\ MakeHashable(x) \in K

\* This step initialises the tracker of instance a.
InitStep(a) == start_result[a] = "none" /\ start_result'[a] = "running"

\* This step resumes get_remaining of instance a, which yields an element.
YieldStep(a) == cur = a /\ calls'[a] # calls[a]

\* This step resumes get_remaining of instance a, which is exhausted.
ExhaustStep(a) == cur = a /\ pc = "loop" /\ pc' = "finally" /\ calls'[a] = calls[a]

\* What get_remaining does between two resumptions, pset being the keys
\* loaded and marked so far: the elements it passes over have their key in
\* pset, the element it yields is the next one in sequence order whose key
\* is not, and mark_processed adds the key of a hashable element.
TrackerSteps(a) ==
  LET it == cfg[a].iterable
  IN /\ YieldStep(a) =>
          /\ idx' \in (idx + 1)..Len(it)
          /\ calls'[a] = Append(calls[a], it[idx'])
          /\ ~KeyIn(it[idx'], pset)
          /\ \A i \in (idx + 1)..(idx' - 1) : KeyIn(it[i], pset)
          /\ pset' = IF fn_log'[a][Len(fn_log'[a])] = "returned" /\ Hashable(it[idx'])
                     THEN pset \cup {MakeHashable(it[idx'])}
                     ELSE pset
     /\ ExhaustStep(a) => \A i \in (idx + 1)..Len(it) : KeyIn(it[i], pset)
     /\ (cur = a /\ ~YieldStep(a)) => pset' = pset

\* C30 as stated: the keys get_remaining starts from are those of all the
\* inputs loaded from the storage, whatever function version is stored.
C30_RemainingAll ==
  [][\A a \in RunSnappers :
        /\ InitStep(a) => pset' = Keys(storage["X"].inputs)
        /\ TrackerSteps(a)]_vars

\* C30: get_remaining yields, in sequence order, exactly the elements whose
\* canonical key is neither among the inputs loaded from the storage nor
\* marked processed by the time the element is reached, every later
\* occurrence of a stored or just-marked key being passed over; the inputs
\* loaded count when no function version is stored or the stored one is
\* that of the current function, and not at all when it differs.
C30_Remaining ==
  [][\A a \in RunSnappers :
        /\ InitStep(a) =>
              pset' = IF storage["X"].fn_version \in {NoVersion, ComputeHash(cfg[a].fv)}
                      THEN Keys(storage["X"].inputs)
                      ELSE {}
        /\ TrackerSteps(a)]_vars

\* C30, its case: the first run yielded the list and passed over the tuple
\* with the key just marked; the second run, with the same function,
\* passed over the tuple whose key is stored and yielded the integer.
C30_Witness ==
  /\ cfg[1].iterable = <<ListItem, TupleItem>>
  /\ calls[1] = <<ListItem>>
  /\ start_result[1] = "ok"
  /\ cfg[2].iterable = <<TupleItem, IntItem>>
  /\ cfg[2].fv = cfg[1].fv
  /\ calls[2] = <<IntItem>>
  /\ start_result[2] = "ok"

\* hash(x) raises TypeError.
Unhashable(x) == x.kind = "obj"

\* C31: get_remaining never passes over an unhashable element, whether an
\* equal value is stored or was marked in this pass; mark_processed of an
\* unhashable element raises nothing, the loop goes on, and the processed
\* set stays as it was and never holds an unhashable value.
C31_UnhashableYielded ==
  /\ [](\A k \in pset : ~Unhashable(k))
  /\ [][\A a \in RunSnappers :
          LET it == cfg[a].iterable
          IN /\ YieldStep(a) => \A i \in (idx + 1)..(idx' - 1) : ~Unhashable(it[i])
             /\ ExhaustStep(a) => \A i \in (idx + 1)..Len(it) : ~Unhashable(it[i])
             /\ (YieldStep(a) /\ Unhashable(it[idx'])
                   /\ fn_log'[a][Len(fn_log'[a])] = "returned")
                  => pset' = pset /\ pc' = "loop" /\ fn_halted' = fn_halted]_vars

\* C31, its case: the unhashable object is stored by an earlier run with
\* the same function; the second run is given it twice and has yielded it
\* twice, the second time after it was marked.
C31_Witness ==
  /\ start_result[1] = "ok"
  /\ cfg[2].fv = cfg[1].fv
  /\ ObjItem \in Range(base_inputs[2])
  /\ cfg[2].iterable = <<ObjItem, ObjItem>>
  /\ calls[2] = <<ObjItem, ObjItem>>
  /\ fn_log[2] = <<"returned", "returned">>

\* ------------------------------------------------ claims on flush and add
\* The buffer flush() finds in this step: the buffer, with the entry of
\* the add_item that called flush().
FlushedBuffer ==
  IF AddStep THEN Append(current_batch[1], AddedEntry) ELSE current_batch[1]

\* This step is the flush() call of start() after the loop.
FinalFlushStep == cur = 1 /\ pc = "loop" /\ pc' = "finally" /\ calls' = calls

\* C32: a flush() that finds entries leaves an empty buffer and puts the
\* whole buffer it found on the queue of the worker as exactly one unit;
\* a flush() that finds the buffer empty enqueues nothing and changes no
\* state of the batch processor, the queue or the storage; nothing else
\* enqueues a unit.
C32_FlushOneUnit ==
  [][/\ enq_log'[1] # enq_log[1] =>
          /\ FlushedBuffer # <<>>
          /\ enq_log'[1] = Append(enq_log[1], MakeUnit(FlushedBuffer))
          /\ save_queue'[1] = Append(save_queue[1], MakeUnit(FlushedBuffer))
          /\ current_batch'[1] = <<>>
     /\ (FinalFlushStep /\ current_batch[1] # <<>>) => enq_log'[1] # enq_log[1]
     /\ (FinalFlushStep /\ current_batch[1] = <<>>) =>
          /\ UNCHANGED <<current_batch, last_flush_set, wait_exceeded, added, enq_log>>
          /\ UNCHANGED <<save_queue, worker_vars, storage, write_log>>]_vars

\* C32, its case: with batch_size 3 and two items the flush after the loop
\* has enqueued the two entries as the only unit and the buffer is empty.
C32_Witness ==
  /\ cfg[1].batch_size = 3
  /\ Len(added[1]) = 2
  /\ pc = "finally"
  /\ enq_log[1] = <<MakeUnit(added[1])>>
  /\ current_batch[1] = <<>>

\* This step is the call of shutdown() on the batch processor.
ShutdownStep == ~shutdown[1] /\ shutdown'[1]

\* C33: shutdown() of the batch processor does not flush: the call puts
\* the sentinel alone on the queue and leaves the buffer as it is; from
\* then on the buffer stays, nothing more is enqueued, and only units that
\* a flush enqueued are ever written.
C33_ShutdownNoFlush ==
  /\ [][ShutdownStep =>
          /\ current_batch' = current_batch
          /\ enq_log' = enq_log
          /\ save_queue'[1] = Append(save_queue[1], Sentinel)]_vars
  /\ [][shutdown[1] => current_batch' = current_batch /\ enq_log' = enq_log]_vars
  /\ [](/\ Len(write_log["X"]) <= Len(enq_log[1])
        /\ \A i \in 1..Len(write_log["X"]) : write_log["X"][i] \in Range(enq_log[1]))

\* C33, its case: with batch_size 3 one entry was in the buffer when fn
\* raised; shutdown() has returned, the entry is still in the buffer,
\* nothing was enqueued and the storage is empty.
C33_Witness ==
  /\ start_result[1] = "fn_error"
  /\ shutdown[1]
  /\ cfg[1].batch_size = 3
  /\ Len(current_batch[1]) = 1
  /\ enq_log[1] = <<>>
  /\ storage["X"].inputs = <<>>

\* ------------------------------------------- claims on load and duplicates
\* The positions of the sequence q whose element has the canonical key k.
KeyPositions(q, k) == {i \in 1..Len(q) : Hashable(q[i]) /\ MakeHashable(q[i]) = k}

\* The canonical keys stored more than once in the storage contents st.
DuplicateKeys(st) == {k \in Keys(st.inputs) : Cardinality(KeyPositions(st.inputs, k)) > 1}

\* C34: when a canonical key is stored more than once, load() returns for
\* every occurrence of that key in the current sequence one and the same
\* output, the one written last under the key, whatever the current
\* sequence is: as many outputs of that key as the sequence has
\* occurrences, all of them the last one written.
C34_LastWriteWins ==
  ret.op = "load" =>
    LET st == storage[cfg[ret.s].sid]
        ci == CurrentInputs(ret.s)
    IN \A k \in DuplicateKeys(st) :
          LET got == {i \in 1..Len(ret.val) :
                        Hashable(ret.val[i].of) /\ MakeHashable(ret.val[i].of) = k}
          IN /\ \A i \in got : ret.val[i] = OutputOfKey(st, k)
             /\ Cardinality(got) = Cardinality(KeyPositions(ci, k))

\* C35: an explicit flush() is a join point: when the flush() call of
\* start() after the loop returns, the queue has drained and the worker
\* holds no unit, so that every unit enqueued so far, the one just handed
\* over included, has had its write.
C35_FlushJoins ==
  [][FinalFlushStep =>
       /\ save_queue'[1] = <<>>
       /\ worker'[1] # "store"]_vars

\* ------------------------------------- claims on the function version
\* Instance a is in its run and instance b ran before it on the same
\* storage: the version a found stored is the one b stored.
RanBefore(b, a) == a # b /\ cur = a /\ start_result[b] \notin {"none", "running"}

\* What _initialize does with the stored version: the current version is
\* stored at initialization and at no other step of the run, and the stored
\* inputs count unless a stored version differs from the current one.
VersionInit(a) ==
  /\ InitStep(a) =>
        /\ storage'["X"].fn_version = ComputeHash(cfg[a].fv)
        /\ pset' = IF storage["X"].fn_version \in {NoVersion, ComputeHash(cfg[a].fv)}
                   THEN Keys(storage["X"].inputs)
                   ELSE {}
        /\ \A b \in RunSnappers \ {a} :
              start_result[b] \notin {"none", "running"} =>
                 storage["X"].fn_version = ComputeHash(cfg[b].fv)
  /\ (cur = a /\ ~InitStep(a)) => storage'["X"].fn_version = storage["X"].fn_version

\* With an equal stored version no element whose key is among the stored
\* inputs is yielded.
StoredSkipped(a) ==
  /\ Keys(base_inputs[a]) \subseteq pset
  /\ YieldStep(a) => ~KeyIn(calls'[a][Len(calls'[a])], Keys(base_inputs[a]))

\* C36 as stated: with a differing stored version get_remaining yields
\* every element of the sequence, one after the other, and is exhausted
\* only past the last one.
C36_VersionResetAll ==
  [][\A a \in RunSnappers : \A b \in RunSnappers :
        /\ VersionInit(a)
        /\ (RanBefore(b, a) /\ cfg[b].fv # cfg[a].fv) =>
              /\ YieldStep(a) => idx' = idx + 1
              /\ ExhaustStep(a) => idx = Len(cfg[a].iterable)
        /\ (RanBefore(b, a) /\ cfg[b].fv = cfg[a].fv) => StoredSkipped(a)]_vars

\* C36: when a stored function version differs from the hash of the
\* current fn, no stored input is treated as processed: the processed set
\* holds only keys of elements yielded in this pass, and get_remaining
\* passes over an element only when its key was marked earlier in the
\* pass; when the stored version is absent or equal, the elements whose
\* key is among the stored inputs are passed over.  In both cases the
\* current version is stored at initialization and at no other step.
C36_VersionReset ==
  [][\A a \in RunSnappers : \A b \in RunSnappers :
        /\ VersionInit(a)
        /\ (RanBefore(b, a) /\ cfg[b].fv # cfg[a].fv) =>
              /\ pset \subseteq Keys(calls[a])
              /\ TrackerSteps(a)
        /\ (RanBefore(b, a) /\ cfg[b].fv = cfg[a].fv) => StoredSkipped(a)]_vars

\* C36, its case: the second run, with another version of the function
\* than the first, has yielded an element whose key the first run stored.
C36_Witness ==
  /\ RanBefore(1, 2)
  /\ cfg[1].fv # cfg[2].fv
  /\ calls[2] # <<>>
  /\ KeyIn(calls[2][1], Keys(base_inputs[2]))
  /\ pc = "finally"

\* ------------------------------------------------ claims on conservation
\* The (input, output) pairs of a unit, and those held by a storage.
UnitEntries(u) == [i \in 1..Len(u.inputs) |-> Entry(u.inputs[i], u.outputs[i])]

StoredEntries(st) == [i \in 1..Len(st.inputs) |-> Entry(st.inputs[i], st.outputs[i])]

\* The pairs of the unit the worker is writing.
WritingEntries(s) == IF worker[s] = "store" THEN UnitEntries(w_item[s]) ELSE <<>>

\* The pairs of the queued units, in FIFO order.
QueuedEntries(s) ==
  Concat([i \in 1..Len(save_queue[s]) |-> UnitEntries(save_queue[s][i])])

\* C37: when no storage write has failed, the entries in storage, then the
\* unit being written, then the queued units in FIFO order, then the
\* accumulator buffer, are exactly the pairs handed to add so far, in the
\* order they were handed over.
C37_Conservation ==
  faults = 0 =>
    /\ Len(storage["X"].inputs) = Len(storage["X"].outputs)
    /\ StoredEntries(storage["X"]) \o WritingEntries(1) \o QueuedEntries(1)
         \o current_batch[1] = added[1]

\* C37, its case: MaxAdds pairs were added, some are stored, one unit is
\* being written and others are queued, and no write has failed.
C37_Witness ==
  /\ faults = 0
  /\ Len(added[1]) = MaxAdds
  /\ storage["X"].inputs # <<>>
  /\ worker[1] = "store"
  /\ QueuedEntries(1) # <<>>

\* ----------------------------------------------------- claims on retries
\* The units of instance s the worker has taken from the queue so far.
TakenUnits(s) ==
  Len(enq_log[s]) - Cardinality({i \in 1..Len(save_queue[s]) : ~save_queue[s][i].sentinel})

\* C38: retries never duplicate durable data: whatever attempts fail at
\* store_snapshot or at store_metrics, the storage X has been appended to
\* at most once for every unit a worker has taken from its queue.
C38_WrittenOnce ==
  Len(write_log["X"]) <= TakenUnits(1) + TakenUnits(2)

\* ---------------------------------------------------- claims on teardown
\* C39: teardown removes only the instance's own registration: finalising
\* an instance that has already released its identifier leaves in the
\* registry the entry a live instance has registered for that identifier
\* since then.
C39_TeardownOwnEntryOnly ==
  [][\A s \in Snappers :
       (status[s] = "released" /\ status'[s] # "released")
          => \A h \in Snappers :
                Holder(h, ident[s].id) => ident[s].id \in active_storages']_vars

\* ------------------------------------------------ claims on the buffer
\* C40: with batch_size >= 1 the buffer holds fewer than batch_size
\* entries whenever add_item is not running, in particular after every
\* add_item; inside add_item, right after the append, it holds at most
\* batch_size entries.
C40_BufferBound ==
  /\ [](status[1] = "live" =>
          /\ cfg[1].batch_size >= 1
          /\ Len(current_batch[1]) < cfg[1].batch_size)
  /\ [][AddStep =>
          /\ Len(current_batch[1]) + 1 <= cfg[1].batch_size
          /\ Len(current_batch'[1]) < cfg[1].batch_size]_vars

\* C40, its case: after a full batch was handed over, add_item has filled
\* the buffer up to one entry below batch_size.
C40_Witness ==
  /\ status[1] = "live"
  /\ enq_log[1] # <<>>
  /\ Len(current_batch[1]) >= 1
  /\ Len(current_batch[1]) = cfg[1].batch_size - 1

====
